---------------------------- MODULE Spec2Model ----------------------------
(***************************************************************************)
(* Model of the gpsfreak host tool: the LMK05318b frequency planner        *)
(* (py/freak/plan_*.py, py/freak/lmk05318b_plan.py), the register image     *)
(* (py/freak/lmk05318b.py) and the register writer and codec               *)
(* (py/freak/lmk05318b_util.py).                                            *)
(*                                                                         *)
(* Frequencies are exact rationals in MHz, as in the source (MHz = 1).  A  *)
(* rational is a pair <<numerator, denominator>> in lowest terms with a    *)
(* positive denominator, which is what Python's Fraction stores.           *)
(*                                                                         *)
(* Python integers are unbounded and TLC's are 32 bit.  The inputs of      *)
(* every specification are chosen so that no intermediate value leaves 32  *)
(* bits; the register widths that cannot be kept at the source's value     *)
(* (24 bits for the second stage of the big divider and for the PLL2       *)
(* multiplier's denominator, 40 bits for the DPLL feedback divider) are    *)
(* the bounds STAGE2_BITS, MULT_DEN_BITS and FB_DEN_BITS.                  *)
(***************************************************************************)
EXTENDS Integers, Sequences, FiniteSets, TLC

\* ------------------------------------------------------------------------
\* Integers and rationals (fractions.Fraction, math.gcd, math.ceil, round)
\* ------------------------------------------------------------------------

Abs(x) == IF x < 0 THEN -x ELSE x

Min(a, b) == IF a <= b THEN a ELSE b

Max(a, b) == IF a >= b THEN a ELSE b

RECURSIVE gcd(_, _)
gcd(a, b) == IF b = 0 THEN a ELSE gcd(b, a % b)

RECURSIVE Pow2(_)
Pow2(n) == IF n = 0 THEN 1 ELSE 2 * Pow2(n - 1)

\* Fraction(n, d) for d # 0: lowest terms, positive denominator.
Fraction(n, d) ==
    LET s == IF d < 0 THEN -1 ELSE 1
        g == gcd(Abs(n), Abs(d))
    IN  << (s * n) \div g, (s * d) \div g >>

FInt(n) == << n, 1 >>

ZERO == << 0, 1 >>

Num(a) == a[1]

Den(a) == a[2]

IsZero(a) == a[1] = 0

FNeg(a) == << -a[1], a[2] >>

FAbs(a) == << Abs(a[1]), a[2] >>

\* a + b, the operands brought to the least common denominator first.
FAdd(a, b) ==
    LET g == gcd(a[2], b[2])
    IN  Fraction(a[1] * (b[2] \div g) + b[1] * (a[2] \div g), a[2] * (b[2] \div g))

FSub(a, b) == FAdd(a, FNeg(b))

\* a * b, cross-cancelled before multiplying (Fraction._mul).
FMul(a, b) ==
    LET g1 == gcd(Abs(a[1]), b[2])
        g2 == gcd(Abs(b[1]), a[2])
    IN  << (a[1] \div g1) * (b[1] \div g2), (a[2] \div g2) * (b[2] \div g1) >>

\* a / b for b # 0.
FDiv(a, b) == FMul(a, IF b[1] < 0 THEN << -b[2], -b[1] >> ELSE << b[2], b[1] >>)

FMulInt(a, k) == FMul(a, FInt(k))

FDivInt(a, k) == FDiv(a, FInt(k))

\* a < b, decided on the integer parts and then on the reciprocals of the
\* fractional parts, so that no product is formed.
RECURSIVE FLt(_, _)
FLt(a, b) ==
    IF a[1] \div a[2] # b[1] \div b[2] THEN a[1] \div a[2] < b[1] \div b[2]
    ELSE IF b[1] % b[2] = 0 THEN FALSE
    ELSE IF a[1] % a[2] = 0 THEN TRUE
    ELSE FLt(<< b[2], b[1] % b[2] >>, << a[2], a[1] % a[2] >>)

FLe(a, b) == a = b \/ FLt(a, b)

\* a // 1 and math.ceil(a)
Floor(a) == a[1] \div a[2]

Ceil(a) == -((-a[1]) \div a[2])

\* a // b on rationals (an int in Python)
FloorDiv(a, b) == Floor(FDiv(a, b))

\* round(a): to the nearest integer, ties to the even one.
Round(a) ==
    LET f == Floor(a)
        r == a[1] - f * a[2]
    IN  IF 2 * r < a[2] THEN f
        ELSE IF 2 * r > a[2] THEN f + 1
        ELSE IF f % 2 = 0 THEN f ELSE f + 1

\* Fraction.limit_denominator(max_denominator): the convergent loop, then the
\* closer of the last convergent and the best semiconvergent (the lower bound
\* wins a tie).
RECURSIVE limit_loop(_, _, _, _, _, _, _, _)
limit_loop(self, maxden, p0, q0, p1, q1, n, d) ==
    LET a  == n \div d
        q2 == q0 + a * q1
    IN  IF q2 > maxden
        THEN LET k      == (maxden - q0) \div q1
                 bound1 == Fraction(p0 + k * p1, q0 + k * q1)
                 bound2 == Fraction(p1, q1)
             IN  IF FLe(FAbs(FSub(bound2, self)), FAbs(FSub(bound1, self)))
                 THEN bound2 ELSE bound1
        ELSE limit_loop(self, maxden, p1, q1, p0 + a * p1, q2, d, n - a * d)

limit_denominator(self, maxden) ==
    IF self[2] <= maxden THEN self
    ELSE limit_loop(self, maxden, 0, 1, 1, 0, self[1], self[2])

\* ------------------------------------------------------------------------
\* Constants of the planner (py/freak/plan_target.py, lmk05318b_plan.py)
\* ------------------------------------------------------------------------

BAW_FREQ == 2500

FPD_DIVIDE == 18

PLL2_PFD == Fraction(BAW_FREQ, FPD_DIVIDE)

OFFICIAL_PLL2_LOW == 5500

OFFICIAL_PLL2_HIGH == 6250

PLL2_LOW == 5340

PLL2_HIGH == 6410

PLL2_MID == (PLL2_LOW + PLL2_HIGH) \div 2

BIG_DIVIDE == 5

\* The second stage of the big divider and the denominator of the PLL2
\* multiplier are 24 bits wide in the source (1 << 24, and 1 << 23 for an
\* even second stage).  A divider chain or an approximated multiplier of that
\* width cannot be multiplied out in 32 bits, so the two widths are bounds
\* of the model; every use of 1 << 24 in the source is one of the two.
STAGE2_BITS == 16

MULT_DEN_BITS == 10

STAGE2_EVEN_MAX == Pow2(STAGE2_BITS - 1)

STAGE2_MAX == Pow2(STAGE2_BITS)

MULT_DEN_MAX == Pow2(MULT_DEN_BITS)

\* The two copies of the planner: "lmk" is py/freak/lmk05318b_plan.py, which is
\* self-contained, "pll2" is py/freak/plan_pll2.py with plan_target.py and
\* plan_tools.py.  They differ in fail(), in the first test of
\* output_divider(), in the top frequency pll2_plan() accepts and in
\* pll2_plan_low().
Variants == {"lmk", "pll2"}

\* fail(): lmk05318b_plan.fail prints and calls sys.exit(1); plan_tools.fail
\* prints and raises PlanningFailed(' '.join(args)), whose message is not
\* empty for any call in the planner.
fail(v) == IF v = "lmk" THEN "SystemExit" ELSE "PlanningFailed"

\* None for an optional pair and for an optional plan.
NoPair == << >>

NoPlan == [ok |-> FALSE, raised |-> "None"]

\* An exception leaving a function that returns an optional plan.
Raised(e) == [ok |-> FALSE, raised |-> e]

IsNone(p) == p = NoPlan

IsRaised(p) == ~p.ok /\ p.raised # "None"

SetMax(S) == CHOOSE x \in S : \A y \in S : y <= x

SetMin(S) == CHOOSE x \in S : \A y \in S : x <= y

\* output_divider(index, ratio): (stage1, stage2) or None.  The first loop
\* returns the largest even `first` in 12..512 that fits, the second the
\* smallest `first` in 6..256.
output_divider(v, index, ratio) ==
    IF (v = "lmk" \/ 2 <= ratio) /\ ratio <= 256 THEN << ratio, 1 >>
    ELSE IF index # BIG_DIVIDE THEN NoPair
    ELSE LET even == { first \in 12..512 : /\ first % 2 = 0
                                          /\ ratio % first = 0
                                          /\ ratio \div first <= STAGE2_EVEN_MAX }
             any  == { first \in 6..256 : /\ ratio % first = 0
                                         /\ ratio \div first <= STAGE2_MAX }
         IN  IF even # {}
             THEN << SetMax(even) \div 2, (ratio * 2) \div SetMax(even) >>
             ELSE IF any # {}
             THEN << SetMin(any), ratio \div SetMin(any) >>
             ELSE NoPair

\* lmk05318b_plan.pll1_divider(index, f): the dividers from the BAW.
pll1_divider(v, index, f) ==
    IF BAW_FREQ % f[1] = 0
    THEN output_divider(v, index, FloorDiv(FInt(BAW_FREQ), f))
    ELSE NoPair

\* A 64 bit mask of post-divider pairs is the set of its one bits: bit
\* 8 * a + b stands for the pair (a, b).
ALL_PAIRS == 0..63

\* postdiv_mask(div) = 0x0101010101010101 << div | 0xfe << 8 * div
postdiv_mask(div) ==
    { 8 * k + div : k \in 0..7 } \cup { 8 * div + j : j \in 1..7 }

\* int.bit_length() - 1 of a non-zero mask
top_bit(mask) == SetMax(mask)

\* ------------------------------------------------------------------------
\* PLLPlan
\* ------------------------------------------------------------------------

PLLPlan(freq, freq_target, multiplier, mask, dividers, freqs) ==
    [ok |-> TRUE, freq |-> freq, freq_target |-> freq_target,
     fpd_divide |-> FPD_DIVIDE, multiplier |-> multiplier,
     postdiv_mask |-> mask, dividers |-> dividers, freqs |-> freqs]

\* PLLPlan.error_ratio(): freq / freq_target - 1.  The source converts it to
\* a float; the conversion is monotonic and keeps zero apart from non-zero,
\* and no two different ratios of the model are closer than a float resolves.
error_ratio(p) == FSub(FDiv(p.freq, p.freq_target), FInt(1))

is_official(p) ==
    FLe(FInt(OFFICIAL_PLL2_LOW), p.freq) /\ FLe(p.freq, FInt(OFFICIAL_PLL2_HIGH))

fixed_denom(p) == MULT_DEN_MAX % p.multiplier[2] = 0

stage2_even(p) ==
    IF BIG_DIVIDE > Len(p.dividers) THEN TRUE
    ELSE LET stage2 == p.dividers[BIG_DIVIDE + 1][3]
         IN  stage2 = 1 \/ stage2 % 2 = 0

\* PLLPlan.__lt__(self, b): TRUE when self is the better plan.
PLLPlan_lt(self, b) ==
    LET a_error == FAbs(error_ratio(self))
        b_error == FAbs(error_ratio(b))
        a_df    == FAbs(FSub(self.freq, FInt(PLL2_MID)))
        b_df    == FAbs(FSub(b.freq, FInt(PLL2_MID)))
    IN  IF IsZero(a_error) # IsZero(b_error) THEN IsZero(a_error)
        ELSE IF is_official(self) # is_official(b) THEN is_official(self)
        ELSE IF a_error # b_error THEN FLt(a_error, b_error)
        ELSE IF stage2_even(self) # stage2_even(b) THEN stage2_even(self)
        ELSE IF fixed_denom(self) # fixed_denom(b) THEN fixed_denom(self)
        ELSE IF a_df # b_df THEN FLt(a_df, b_df)
        ELSE IF self.freq # b.freq THEN FLt(self.freq, b.freq)
        ELSE FALSE

\* The names bound in the namespace of plan_pll2.py that PLLPlan.validate
\* refers to: the module imports BAW_FREQ and FPD_DIVIDE; fpd_divide is a
\* field of the plan and not a global.
MODULE_GLOBALS == {"BAW_FREQ", "FPD_DIVIDE", "PLL2_PFD", "PLL2_LOW", "PLL2_HIGH"}

\* PLLPlan.validate(): assert self.freq == self.multiplier * BAW_FREQ /
\* fpd_divide, where fpd_divide is looked up as a global name.
PLLPlan_validate(p) ==
    IF "fpd_divide" \notin MODULE_GLOBALS THEN "NameError"
    ELSE IF p.freq = FDivInt(FMulInt(p.multiplier, BAW_FREQ), FPD_DIVIDE)
    THEN "ok" ELSE "AssertionError"

\* ------------------------------------------------------------------------
\* pll2_plan1 and pll2_plan (plan_pll2.py 254-363, lmk05318b_plan.py 361-462)
\* ------------------------------------------------------------------------

\* The loop over the post-dividers starting at 1 instead of 2.
usable_postdivs_from1(v, i, ratio) ==
    { postdiv \in 1..7 : /\ ratio % postdiv = 0
                         /\ output_divider(v, i, ratio \div postdiv) # NoPair }

\* The post-dividers in 2..7 that split `ratio` for output i, and those of
\* them that leave an even (or no) second stage.
usable_postdivs(v, i, ratio) ==
    { postdiv \in 2..7 : /\ ratio % postdiv = 0
                         /\ output_divider(v, i, ratio \div postdiv) # NoPair }

even_postdivs(v, i, ratio) ==
    { postdiv \in usable_postdivs(v, i, ratio) :
        LET s2 == output_divider(v, i, ratio \div postdiv)[2]
        IN  s2 = 1 \/ s2 % 2 = 0 }

\* The first loop of pll2_plan1 from output i on: << postdivs, postdive,
\* assertion held >>.  postdive1 is never added to, so the source's
\* `postdive &= postdive1` clears postdive for every frequency it looks at.
RECURSIVE pll2_plan1_masks(_, _, _, _, _, _)
pll2_plan1_masks(v, freqs, pll2_freq, i, postdivs, postdive) ==
    IF i >= Len(freqs) THEN << postdivs, postdive, TRUE >>
    ELSE LET f == freqs[i + 1] IN
         IF IsZero(f)
         THEN pll2_plan1_masks(v, freqs, pll2_freq, i + 1, postdivs, postdive)
         ELSE IF FDiv(pll2_freq, f)[2] # 1 THEN << postdivs, postdive, FALSE >>
         ELSE LET ratio == Floor(FDiv(pll2_freq, f)) IN
              IF ratio <= 1 THEN << {}, postdive, TRUE >>
              ELSE LET postdivs1 == UNION { postdiv_mask(postdiv) :
                                            postdiv \in usable_postdivs(v, i, ratio) }
                       postdive1 == {}
                       postdive2 == postdive \cup
                                    UNION { postdiv_mask(postdiv) :
                                            postdiv \in even_postdivs(v, i, ratio) }
                       postdivs3 == postdivs \cap postdivs1
                       postdive3 == postdive2 \cap postdive1
                   IN  IF postdivs3 = {} THEN << {}, postdive3, TRUE >>
                       ELSE pll2_plan1_masks(v, freqs, pll2_freq, i + 1,
                                             postdivs3, postdive3)

\* The second loop of pll2_plan1 for output i: the triple, or << >> when one
\* of its assertions fails.
pll2_plan1_divider(v, i, f, pll2_freq, p1, p2) ==
    IF IsZero(f) THEN << 0, 0, 0 >>
    ELSE LET ratio == Round(FDiv(pll2_freq, f))
             od1   == IF ratio % p1 = 0
                      THEN output_divider(v, i, ratio \div p1) ELSE NoPair
         IN  IF od1 # NoPair THEN << p1, od1[1], od1[2] >>
             ELSE IF ratio % p2 # 0 THEN << >>
             ELSE LET od2 == output_divider(v, i, ratio \div p2)
                  IN  IF od2 = NoPair THEN << >> ELSE << p2, od2[1], od2[2] >>

\* pll2_plan1 reporting the requested frequencies as the realised ones.
pll2_plan1_result_requested(freqs, pll2_freq, postdivs, dividers, mult_exact, mult_actual) ==
    PLLPlan(FMul(PLL2_PFD, mult_actual), pll2_freq, mult_actual, postdivs, dividers,
            freqs)

\* The end of pll2_plan1: the plan from the multipliers and the dividers.
pll2_plan1_result(freqs, pll2_freq, postdivs, dividers, mult_exact, mult_actual) ==
    PLLPlan(FMul(PLL2_PFD, mult_actual), pll2_freq, mult_actual, postdivs, dividers,
            [ i \in 1..Len(freqs) |-> FMul(FDiv(freqs[i], mult_exact), mult_actual) ])

pll2_plan1_checked(freqs, pll2_freq, postdivs, dividers, mult_exact) ==
    IF \E i \in 1..Len(freqs) : dividers[i] = << >>
    THEN Raised("AssertionError")
    ELSE pll2_plan1_result(freqs, pll2_freq, postdivs, dividers, mult_exact,
                           limit_denominator(mult_exact, MULT_DEN_MAX))

\* The second loop of pll2_plan1, with p1 = postdiv_bit >> 3 & 7 and
\* p2 = postdiv_bit & 7.
pll2_plan1_dividers(v, freqs, pll2_freq, postdivs, postdiv_bit) ==
    pll2_plan1_checked(freqs, pll2_freq, postdivs,
        [ i \in 1..Len(freqs) |->
          pll2_plan1_divider(v, i - 1, freqs[i], pll2_freq,
                             (postdiv_bit \div 8) % 8, postdiv_bit % 8) ],
        FDiv(pll2_freq, PLL2_PFD))

\* pll2_plan1 after its first loop, which left masks = << postdivs,
\* postdive, assertion held >>: the highest pair of postdive if it is not
\* empty, else of postdivs.
pll2_plan1_pair(v, freqs, pll2_freq, masks) ==
    IF ~masks[3] THEN Raised("AssertionError")
    ELSE IF masks[1] = {} THEN NoPlan
    ELSE pll2_plan1_dividers(v, freqs, pll2_freq, masks[1],
                             IF masks[2] # {} THEN top_bit(masks[2])
                             ELSE top_bit(masks[1]))

pll2_plan1(v, freqs, pll2_freq) ==
    IF ~(FLe(FInt(PLL2_LOW), pll2_freq) /\ FLe(pll2_freq, FInt(PLL2_HIGH)))
    THEN Raised("AssertionError")
    ELSE pll2_plan1_pair(v, freqs, pll2_freq,
                         pll2_plan1_masks(v, freqs, pll2_freq, 0, ALL_PAIRS, ALL_PAIRS))

\* The highest output frequency pll2_plan accepts.
pll2_maxf(v) == IF v = "lmk" THEN Fraction(PLL2_HIGH, 2) ELSE Fraction(PLL2_HIGH, 4)

pll2_start(pll2_lcm) == Ceil(FDiv(FInt(PLL2_LOW), pll2_lcm))

pll2_end(pll2_lcm) == Floor(FDiv(FInt(PLL2_HIGH), pll2_lcm))

\* `if best is None or plan is not None and plan < best: best = plan`, and
\* an exception ends the loop.
better_of(plan, best) ==
    IF IsRaised(best) THEN best
    ELSE IF IsRaised(plan) THEN plan
    ELSE IF IsNone(best) THEN plan
    ELSE IF ~IsNone(plan) /\ PLLPlan_lt(plan, best) THEN plan
    ELSE best

\* One pass of the loop of pll2_plan: the new value of `best`.
pll2_plan_iter(v, freqs, pll2_lcm, mult, best) ==
    better_of(pll2_plan1(v, freqs, FMulInt(pll2_lcm, mult)), best)

\* for mult in range(lo, hi + 1), folded by halves: the passes run in the
\* order of the source, and the evaluation stays shallow.
RECURSIVE pll2_plan_loop(_, _, _, _, _, _)
pll2_plan_loop(v, freqs, pll2_lcm, lo, hi, best) ==
    IF lo > hi THEN best
    ELSE IF lo = hi THEN pll2_plan_iter(v, freqs, pll2_lcm, lo, best)
    ELSE LET half == pll2_plan_loop(v, freqs, pll2_lcm, lo, (lo + hi) \div 2, best)
         IN  IF IsRaised(half) THEN half
             ELSE pll2_plan_loop(v, freqs, pll2_lcm, (lo + hi) \div 2 + 1, hi, half)

\* What pll2_plan does before its loop: "" to go on, else the exception.
pll2_plan_entry(v, freqs, pll2_lcm) ==
    LET nonzero == { i \in 1..Len(freqs) : ~IsZero(freqs[i]) }
    IN  IF nonzero = {} THEN "ValueError"
        ELSE IF \E i \in nonzero : FLt(pll2_maxf(v), freqs[i]) THEN fail(v)
        ELSE IF pll2_start(pll2_lcm) > pll2_end(pll2_lcm) THEN fail(v)
        ELSE ""

\* What pll2_plan does after its loop.
pll2_plan_exit(v, best) ==
    IF IsRaised(best) THEN [out |-> best.raised, plan |-> NoPlan]
    ELSE IF IsNone(best) THEN [out |-> fail(v), plan |-> NoPlan]
    ELSE [out |-> "returned", plan |-> best]

pll2_plan(v, freqs, pll2_lcm) ==
    IF pll2_plan_entry(v, freqs, pll2_lcm) # ""
    THEN [out |-> pll2_plan_entry(v, freqs, pll2_lcm), plan |-> NoPlan]
    ELSE pll2_plan_exit(v, pll2_plan_loop(v, freqs, pll2_lcm, pll2_start(pll2_lcm),
                                          pll2_end(pll2_lcm), NoPlan))

\* ------------------------------------------------------------------------
\* The low-frequency path (plan_tools.py 39-67, 103-126, plan_pll2.py 94-252,
\* lmk05318b_plan.py 217-359)
\* ------------------------------------------------------------------------

\* qd_factor(n): the sorted prime factors of n by trial division, from
\* `factor` on.
RECURSIVE strip_factor(_, _)
strip_factor(n, f) == IF n % f = 0 THEN strip_factor(n \div f, f) ELSE n

\* The passes of the loop in which nothing divides n are taken 32 at a time,
\* which keeps the evaluation shallow.
RECURSIVE qd_factor_from(_, _, _)
qd_factor_from(n, factor, factors) ==
    IF factor * factor > n
    THEN IF n > 1 THEN Append(factors, n) ELSE factors
    ELSE LET next == IF factor = 2 THEN 3 ELSE factor + 2 IN
         IF n % factor = 0
         THEN qd_factor_from(strip_factor(n, factor), next, Append(factors, factor))
         ELSE IF factor > 2 /\ \A d \in factor..(factor + 63) : n % d # 0
         THEN qd_factor_from(n, factor + 64, factors)
         ELSE qd_factor_from(n, next, factors)

qd_factor(n) == qd_factor_from(n, 2, << >>)

\* do_factor_splitting(left, right, maxL, maxR, primes, index): the pairs the
\* generator yields, in the order it yields them.
RECURSIVE do_factor_splitting(_, _, _, _, _, _)
do_factor_splitting(left, right, maxL, maxR, primes, index) ==
    IF index >= Len(primes)
    THEN IF left <= maxL /\ right <= maxR THEN << << left, right >> >> ELSE << >>
    ELSE LET prime == primes[index + 1]
             head  == do_factor_splitting(left, right, maxL, maxR, primes, index + 1)
         IN  IF right % prime # 0 THEN head
             ELSE IF left * prime > maxL THEN head
             ELSE head \o do_factor_splitting(left * prime, right \div prime,
                                              maxL, maxR, primes, index)

swap_pairs(pairs) == [ k \in 1..Len(pairs) |-> << pairs[k][2], pairs[k][1] >> ]

\* plan_tools.factor_splitting(number, primes, maxL, maxR): the first
\* generator runs only when maxL <= maxR, the second one always.
factor_splitting(number, primes, maxL, maxR) ==
    (IF maxL <= maxR
     THEN do_factor_splitting(1, number, maxL, maxR, primes, 0) ELSE << >>)
    \o swap_pairs(do_factor_splitting(1, number, maxR, maxL, primes, 0))

\* (a * b * c) % d = 0 without forming the product.
divides_product(d, a, b, c) ==
    LET d1 == d \div gcd(d, a)
        d2 == d1 \div gcd(d1, b)
    IN  c % d2 = 0

\* The end of pll2_plan_low1: its three assertions and the plan.
pll2_plan_low1_result(freq, post_div, stage1_div, stage2, vco_freq, multiplier, out_freq) ==
    IF ~(FLe(FInt(PLL2_LOW), vco_freq) /\ FLe(vco_freq, FInt(PLL2_HIGH)))
    THEN Raised("AssertionError")
    ELSE IF multiplier[2] > MULT_DEN_MAX THEN Raised("AssertionError")
    ELSE IF out_freq # freq THEN Raised("AssertionError")
    ELSE PLLPlan(vco_freq, vco_freq, multiplier, postdiv_mask(post_div),
                 [ i \in 1..(BIG_DIVIDE + 1) |->
                   IF i = BIG_DIVIDE + 1 THEN << post_div, stage1_div, stage2 >>
                   ELSE << 0, 0, 0 >> ],
                 [ i \in 1..(BIG_DIVIDE + 1) |->
                   IF i = BIG_DIVIDE + 1 THEN out_freq ELSE ZERO ])

\* multiplier = vco_freq / PLL2_PFD and the frequency of the output.
pll2_plan_low1_mult(freq, post_div, stage1_div, stage2, vco_freq, multiplier) ==
    pll2_plan_low1_result(freq, post_div, stage1_div, stage2, vco_freq, multiplier,
        FDivInt(FDivInt(FDivInt(FMul(PLL2_PFD, multiplier), post_div),
                        stage1_div), stage2))

\* vco_freq = freq * post_div * stage1_div * stage2_div
pll2_plan_low1_vco(freq, post_div, stage1_div, stage2, vco_freq) ==
    pll2_plan_low1_mult(freq, post_div, stage1_div, stage2, vco_freq,
                        FDiv(vco_freq, PLL2_PFD))

\* `stage2_div *= extra`
pll2_plan_low1_stage2(freq, post_div, stage1_div, stage2) ==
    pll2_plan_low1_vco(freq, post_div, stage1_div, stage2,
        FMulInt(FMulInt(FMulInt(freq, post_div), stage1_div), stage2))

\* The attempt to make the stage2 divide even.
pll2_plan_low1_even(freq, post_div, stage1_div, stage2_div, max_extra, min_extra, extra) ==
    pll2_plan_low1_stage2(freq, post_div, stage1_div,
        stage2_div * (IF stage2_div % 2 # 0 /\ extra % 2 # 0
                      THEN IF extra < max_extra THEN extra + 1
                           ELSE IF extra > min_extra THEN extra - 1
                           ELSE extra
                      ELSE extra))

\* extra = max(floor(PLL2_MID / freq / output_divide), min_extra), unless
\* min_extra > max_extra.
pll2_plan_low1_extra(freq, post_div, stage1_div, stage2_div, output_divide, max_extra, min_extra) ==
    IF min_extra > max_extra THEN NoPlan
    ELSE pll2_plan_low1_even(freq, post_div, stage1_div, stage2_div, max_extra, min_extra,
             Max(Floor(FDivInt(FDiv(FInt(PLL2_MID), freq), output_divide)), min_extra))

\* max_extra and min_extra, which lmk05318b_plan.py and plan_pll2.py floor
\* in different places.
pll2_plan_low1_range(v, freq, post_div, stage1_div, stage2_div, output_divide) ==
    pll2_plan_low1_extra(freq, post_div, stage1_div, stage2_div, output_divide,
        Min(STAGE2_MAX \div stage2_div,
            IF v = "lmk"
            THEN Floor(FDivInt(FDiv(FInt(PLL2_HIGH), freq), output_divide))
            ELSE FloorDiv(FInt(PLL2_HIGH), freq) \div output_divide),
        Ceil(FDivInt(FDiv(FInt(PLL2_LOW), freq), output_divide)))

\* pll2_plan_low1(target, freq, post_div, stage1_div, mult_den, stage2_div)
pll2_plan_low1(v, freq, post_div, stage1_div, mult_den, stage2_div) ==
    IF ~divides_product(FDiv(freq, PLL2_PFD)[2], mult_den, post_div * stage1_div,
                        stage2_div)
    THEN Raised("AssertionError")
    ELSE pll2_plan_low1_range(v, freq, post_div, stage1_div, stage2_div,
                              post_div * stage1_div * stage2_div)

\* The innermost loop of the exact search, over the splittings from k on;
\* stage2_first says which element of a pair is the stage2 divider.
RECURSIVE low_try_splits(_, _, _, _, _, _, _, _)
low_try_splits(v, freq, post_div, stage1_div, splits, stage2_first, k, best) ==
    IF k > Len(splits) \/ IsRaised(best) THEN best
    ELSE LET stage2_div == IF stage2_first THEN splits[k][1] ELSE splits[k][2]
             mult_den   == IF stage2_first THEN splits[k][2] ELSE splits[k][1]
         IN  low_try_splits(v, freq, post_div, stage1_div, splits, stage2_first, k + 1,
                            better_of(pll2_plan_low1(v, freq, post_div, stage1_div,
                                                     mult_den, stage2_div), best))

\* The body of the two loops of plan_pll2.pll2_plan_low_exact for one
\* (post_div, stage1_div).
low_exact_body(freq, fast, ratio, factors, post_div, stage1_div, best) ==
    LET bigden == ratio[2] \div gcd(ratio[2], post_div * stage1_div)
        s2_max == Min(STAGE2_MAX,
                      (FloorDiv(FInt(PLL2_HIGH), freq) \div post_div) \div stage1_div)
        s2_min == Ceil(FDivInt(FDivInt(FDiv(FInt(PLL2_LOW), freq), post_div), stage1_div))
        den_max == IF fast THEN Min(MULT_DEN_MAX, bigden \div s2_min) ELSE MULT_DEN_MAX
    IN  IF bigden > s2_max * MULT_DEN_MAX THEN best
        ELSE IF s2_min > STAGE2_MAX THEN best
        ELSE low_try_splits("pll2", freq, post_div, stage1_div,
                            factor_splitting(bigden, factors, s2_max, den_max),
                            TRUE, 1, best)

\* The body of the two loops of lmk05318b_plan.pll2_plan_low, whose
\* factor_splitting bounds both factors by 1 << 24 and yields
\* (mult_den, stage2_div).
lmk_low_body(freq, ratio, factors, post_div, stage1_div, best) ==
    LET bigden == ratio[2] \div gcd(ratio[2], post_div * stage1_div)
    IN  IF bigden > Pow2(STAGE2_BITS + MULT_DEN_BITS) THEN best
        ELSE low_try_splits("lmk", freq, post_div, stage1_div,
                            do_factor_splitting(1, bigden, MULT_DEN_MAX, STAGE2_MAX,
                                                factors, 0),
                            FALSE, 1, best)

low_body(v, freq, fast, ratio, factors, post_div, stage1_div, best) ==
    IF v = "lmk" THEN lmk_low_body(freq, ratio, factors, post_div, stage1_div, best)
    ELSE low_exact_body(freq, fast, ratio, factors, post_div, stage1_div, best)

\* for stage1_div in range(lo, hi + 1), folded by halves: the passes run in
\* the order of the source, and the evaluation stays shallow.
RECURSIVE low_stage1_loop(_, _, _, _, _, _, _, _, _)
low_stage1_loop(v, freq, fast, ratio, factors, post_div, lo, hi, best) ==
    IF lo > hi THEN best
    ELSE IF lo = hi
    THEN low_body(v, freq, fast, ratio, factors, post_div, lo, best)
    ELSE LET half == low_stage1_loop(v, freq, fast, ratio, factors, post_div,
                                     lo, (lo + hi) \div 2, best)
         IN  IF IsRaised(half) THEN half
             ELSE low_stage1_loop(v, freq, fast, ratio, factors, post_div,
                                  (lo + hi) \div 2 + 1, hi, half)

\* for post_div in range(2, 7 + 1)
RECURSIVE low_postdiv_loop(_, _, _, _, _, _, _)
low_postdiv_loop(v, freq, fast, ratio, factors, post_div, best) ==
    IF post_div > 7 \/ IsRaised(best) THEN best
    ELSE low_postdiv_loop(v, freq, fast, ratio, factors, post_div + 1,
                          low_stage1_loop(v, freq, fast, ratio, factors, post_div,
                                          6, 256, best))

\* pll2_plan_low_exact(target, freq, fast, ratio, factors), and the search
\* loop of lmk05318b_plan.pll2_plan_low.
pll2_plan_low_exact(v, freq, fast, ratio, factors) ==
    IF v = "pll2" /\ factors[Len(factors)] >= STAGE2_MAX THEN NoPlan
    ELSE low_postdiv_loop(v, freq, fast, ratio, factors, 2, NoPlan)

\* The frequency below which an output needs the second stage:
\* Fraction(PLL2_LOW, 7 * 256).
LOW_LIMIT == Fraction(PLL2_LOW, 7 * 256)

\* MIN of the fall-back: 100 kHz.
LOW_MIN == Fraction(1, 10)

\* `ceil(OFFICIAL_PLL2_LOW / next) > floor(OFFICIAL_PLL2_HIGH / next)`, which
\* lmk05318b_plan.py evaluates on a tenth of the official range.
no_official_multiple(v, next) ==
    IF v = "lmk"
    THEN Ceil(FDiv(FDivInt(FInt(OFFICIAL_PLL2_LOW), 10), next))
           > Floor(FDiv(FDivInt(FInt(OFFICIAL_PLL2_HIGH), 10), next))
    ELSE Ceil(FDiv(FInt(OFFICIAL_PLL2_LOW), next))
           > Floor(FDiv(FInt(OFFICIAL_PLL2_HIGH), next))

\* The inner while loop of the fall-back for the prime p: << pll2_lcm,
\* ratio_denominator >> when it ends.  plan_pll2.py tests and divides
\* ratio_denominator, lmk05318b_plan.py tests pll2_lcm.denominator.
RECURSIVE low_lcm_while(_, _, _, _)
low_lcm_while(v, p, pll2_lcm, ratio_denominator) ==
    IF (IF v = "lmk" THEN pll2_lcm[2] ELSE ratio_denominator) % p # 0
    THEN << pll2_lcm, ratio_denominator >>
    ELSE LET next == FMulInt(pll2_lcm, p)
             rd   == IF v = "lmk" THEN ratio_denominator ELSE ratio_denominator \div p
         IN  IF no_official_multiple(v, next) THEN << pll2_lcm, ratio_denominator >>
             ELSE IF FLe(LOW_MIN, next) THEN << next, rd >>
             ELSE low_lcm_while(v, p, next, rd)

\* `for p in reversed(factors)` from the k-th factor down.
RECURSIVE low_lcm_for(_, _, _, _, _)
low_lcm_for(v, factors, k, pll2_lcm, ratio_denominator) ==
    IF k < 1 THEN pll2_lcm
    ELSE LET w == low_lcm_while(v, factors[k], pll2_lcm, ratio_denominator)
         IN  IF FLe(LOW_MIN, w[1]) THEN w[1]
             ELSE low_lcm_for(v, factors, k - 1, w[1], w[2])

\* `while pll2_lcm < MIN: pll2_lcm *= 2`
RECURSIVE low_lcm_double(_)
low_lcm_double(pll2_lcm) ==
    IF FLt(pll2_lcm, LOW_MIN) THEN low_lcm_double(FMulInt(pll2_lcm, 2)) ELSE pll2_lcm

low_fallback_lcm(v, freq, ratio, factors) ==
    low_lcm_double(low_lcm_for(v, factors, Len(factors), freq, ratio[2]))

low_freqs(freq) == [ i \in 1..(BIG_DIVIDE + 1) |-> IF i = BIG_DIVIDE + 1 THEN freq ELSE ZERO ]

\* The end of pll2_plan_low: return the plan of the exact search, or go to
\* pll2_plan with a multiple of the frequency.
pll2_plan_low_finish(v, freq, ratio, factors, plan) ==
    IF IsRaised(plan) THEN [out |-> plan.raised, plan |-> NoPlan]
    ELSE IF ~IsNone(plan) THEN [out |-> "returned", plan |-> plan]
    ELSE pll2_plan(v, low_freqs(freq), low_fallback_lcm(v, freq, ratio, factors))

\* plan_pll2.py searches a second time without the heuristic when the
\* first search found nothing.
pll2_plan_low_second(v, freq, ratio, factors, plan) ==
    IF v = "lmk" \/ ~IsNone(plan)
    THEN pll2_plan_low_finish(v, freq, ratio, factors, plan)
    ELSE pll2_plan_low_finish(v, freq, ratio, factors,
                              pll2_plan_low_exact(v, freq, FALSE, ratio, factors))

pll2_plan_low_factored(v, freq, ratio, factors) ==
    IF Len(factors) = 0 THEN [out |-> "AssertionError", plan |-> NoPlan]
    ELSE IF v = "lmk" /\ factors[Len(factors)] >= STAGE2_MAX
    THEN [out |-> fail(v), plan |-> NoPlan]
    ELSE pll2_plan_low_second(v, freq, ratio, factors,
                              pll2_plan_low_exact(v, freq, TRUE, ratio, factors))

pll2_plan_low_ratio(v, freq, ratio) ==
    pll2_plan_low_factored(v, freq, ratio, qd_factor(ratio[2]))

\* pll2_plan_low(target, freq): [out, plan].
pll2_plan_low(v, target, freq) ==
    IF ~FLt(freq, LOW_LIMIT) THEN [out |-> "AssertionError", plan |-> NoPlan]
    ELSE IF freq # target.freqs[BIG_DIVIDE + 1]
    THEN [out |-> "AssertionError", plan |-> NoPlan]
    ELSE pll2_plan_low_ratio(v, freq, FDiv(freq, PLL2_PFD))

\* ------------------------------------------------------------------------
\* plan (lmk05318b_plan.py 464-516)
\* ------------------------------------------------------------------------

\* None for an optional frequency.
NoFreq == << >>

\* fract_lcm(a, b) of lmk05318b_plan.py: << value, assertions held >>.
fract_lcm(a, b) ==
    IF a = NoFreq THEN << b, TRUE >>
    ELSE IF b = NoFreq THEN << a, TRUE >>
    ELSE LET g1 == gcd(a[2], b[2])
             g2 == gcd(a[1], b[1])
             u  == (a[2] \div g1) * (b[1] \div g2)
             w  == (a[1] \div g2) * (b[2] \div g1)
         IN  << FMulInt(a, u), FMulInt(a, u) = FMulInt(b, w) /\ gcd(u, w) = 1 >>

\* A plan() that sends every multiple to the search of pll2_plan.
SMALL_none == ZERO

\* SMALL of plan(): Fraction(MHz, 20).
SMALL == Fraction(1, 20)

\* (PLL2_HIGH - PLL2_LOW) / 2 // SMALL of plan_constants.py, where SMALL is
\* 50 kHz as well.
MAX_HALF_RANGE == Floor(FDiv(Fraction(PLL2_HIGH - PLL2_LOW, 2), Fraction(1, 20)))

\* Where the first loop of plan() sends output i: "off", "pll1", "pll2", or
\* "fail".
plan_route(v, i, f) ==
    IF IsZero(f) THEN "off"
    ELSE IF pll1_divider(v, i, f) # NoPair THEN "pll1"
    ELSE IF i = BIG_DIVIDE \/ FLe(LOW_LIMIT, f) THEN "pll2"
    ELSE "fail"

plan_pll1(v, freqs) ==
    [ i \in 1..Len(freqs) |-> IF plan_route(v, i - 1, freqs[i]) = "pll1" THEN freqs[i] ELSE ZERO ]

plan_pll2(v, freqs) ==
    [ i \in 1..Len(freqs) |-> IF plan_route(v, i - 1, freqs[i]) = "pll2" THEN freqs[i] ELSE ZERO ]

\* The loop `for f in pll2: if f: pll2_lcm = fract_lcm(pll2_lcm, f)` from
\* index i on: << lcm, assertions held >>.
RECURSIVE plan_lcm(_, _, _)
plan_lcm(pll2, i, acc) ==
    IF i > Len(pll2) \/ ~acc[2] THEN acc
    ELSE IF IsZero(pll2[i]) THEN plan_lcm(pll2, i + 1, acc)
    ELSE plan_lcm(pll2, i + 1, fract_lcm(acc[1], pll2[i]))

\* PLLPlan() with freqs and dividers filled in for a plan without PLL2.
empty_plan(n) ==
    [ok |-> TRUE, freq |-> ZERO, freq_target |-> ZERO, fpd_divide |-> FPD_DIVIDE,
     multiplier |-> ZERO, postdiv_mask |-> {},
     dividers |-> [ i \in 1..n |-> << 0, 0, 0 >> ], freqs |-> [ i \in 1..n |-> ZERO ]]

\* The if / elif chain of plan() that makes the PLL2 plan: [out, plan].  When
\* no branch is taken `plan` stays unbound and the call of add_pll1 raises
\* UnboundLocalError.
plan_search(v, target, pll2, pll2_lcm) ==
    IF pll2_lcm = NoFreq
    THEN [out |-> "returned", plan |-> empty_plan(Len(target.freqs))]
    ELSE IF FLt(SMALL, pll2_lcm) THEN pll2_plan(v, pll2, pll2_lcm)
    ELSE IF ~IsZero(target.freqs[BIG_DIVIDE + 1])
    THEN IF \E i \in 1..Len(pll2) : i # BIG_DIVIDE + 1 /\ ~IsZero(pll2[i])
         THEN [out |-> "AssertionError", plan |-> NoPlan]
         ELSE pll2_plan_low(v, target, target.freqs[BIG_DIVIDE + 1])
    ELSE [out |-> "UnboundLocalError", plan |-> NoPlan]

\* add_pll1(target, plan, freqs): [out, plan].
add_pll1(v, plan, freqs) ==
    IF \E i \in 1..Len(freqs) :
          ~IsZero(freqs[i]) /\ pll1_divider(v, i - 1, freqs[i]) = NoPair
    THEN [out |-> "AssertionError", plan |-> NoPlan]
    ELSE [out |-> "returned",
          plan |-> [plan EXCEPT
            !.freqs = [ i \in 1..Len(plan.freqs) |->
                        IF i <= Len(freqs) /\ ~IsZero(freqs[i]) THEN freqs[i]
                        ELSE plan.freqs[i] ],
            !.dividers = [ i \in 1..Len(plan.dividers) |->
                           IF i <= Len(freqs) /\ ~IsZero(freqs[i])
                           THEN << 0, pll1_divider(v, i - 1, freqs[i])[1],
                                   pll1_divider(v, i - 1, freqs[i])[2] >>
                           ELSE plan.dividers[i] ]]]

\* ------------------------------------------------------------------------
\* The DPLL planner (plan_dpll.py)
\* ------------------------------------------------------------------------

\* The width of the denominator of fb_div, 40 in the source.
FB_DEN_BITS == 8

FB_DEN_LIMIT == Pow2(FB_DEN_BITS)

\* The width of a multiple of the BAW search, 32 in the source.
BAW_MULT_BITS == 20

\* 1 Hz, in MHz.
Hz == Fraction(1, 1000000)

\* XO_FREQ = 30720 kHz
XO_FREQ == Fraction(30720, 1000)

\* BAW_LOW and BAW_HIGH: BAW_FREQ -+ 50 ppm.
BAW_LOW == FSub(FInt(BAW_FREQ), Fraction(BAW_FREQ * 50, 1000000))

BAW_HIGH == FAdd(FInt(BAW_FREQ), Fraction(BAW_FREQ * 50, 1000000))

\* `not x` for an optional frequency: None and 0 are false.
Falsy(f) == IF f = NoFreq THEN TRUE ELSE IsZero(f)

\* is_multiple_of(a, b)
is_multiple_of(a, b) ==
    IF Falsy(b) THEN FALSE
    ELSE a[1] % b[1] = 0 /\ b[2] % a[2] = 0

\* FrequencyTarget.force_pll2(freq)
force_pll2(tgt, freq) ==
    IF Falsy(tgt.pll2_base) THEN FALSE
    ELSE is_multiple_of(tgt.pll2_base, freq)

\* DPLLPlan(...): ref_div keeps its default of 1.
DPLLPlan(baw, baw_target, pll1_pfd, reference, fb_prediv, fb_div) ==
    [ok |-> TRUE, baw |-> baw, baw_target |-> baw_target, pll1_pfd |-> pll1_pfd,
     reference |-> reference, ref_div |-> 1, fb_prediv |-> fb_prediv,
     fb_div |-> fb_div]

\* DPLLPlan.__lt__(self, b): both errors are taken against self.baw_target.
DPLLPlan_lt(self, b) ==
    IF IsNone(b) THEN TRUE
    ELSE IF FAbs(FSub(self.baw, self.baw_target)) # FAbs(FSub(b.baw, self.baw_target))
    THEN FLt(FAbs(FSub(self.baw, self.baw_target)), FAbs(FSub(b.baw, self.baw_target)))
    ELSE IF FAbs(FSub(self.baw, FInt(BAW_FREQ))) # FAbs(FSub(b.baw, FInt(BAW_FREQ)))
    THEN FLt(FAbs(FSub(self.baw, FInt(BAW_FREQ))), FAbs(FSub(b.baw, FInt(BAW_FREQ))))
    ELSE IF self.fb_prediv # b.fb_prediv THEN self.fb_prediv < b.fb_prediv
    ELSE IF self.fb_div[2] # b.fb_div[2] THEN self.fb_div[2] < b.fb_div[2]
    ELSE FLt(self.fb_div, b.fb_div)

\* DPLLPlan.validate(): the first assertion that fails, or "ok".
DPLLPlan_validate(p) ==
    IF ~(p.fb_div[2] < FB_DEN_LIMIT) THEN "AssertionError: denominator"
    ELSE IF p.baw # FMul(FMulInt(FDivInt(p.reference, p.ref_div), 2 * p.fb_prediv),
                         p.fb_div)
    THEN "AssertionError: baw"
    ELSE IF ~FLt(FAbs(FSub(p.baw, p.baw_target)), Hz) THEN "AssertionError: baw_target"
    ELSE "ok"

\* `if x < 1 or abs(x - round(x)) < 0.125: continue`: TRUE when the pass is
\* skipped.  Where the source converts x to a float first, the model keeps
\* the exact value.
bad_fraction(x) ==
    FLt(x, FInt(1)) \/ FLt(FAbs(FSub(x, FInt(Round(x)))), Fraction(1, 8))

\* baw_plan_for_freq(target, freq): the loop over pre_div from pre_div on.
RECURSIVE baw_plan_for_freq_loop(_, _, _, _)
baw_plan_for_freq_plan(tgt, freq, pre_div, best, plan) ==
    IF plan.baw = freq THEN plan
    ELSE baw_plan_for_freq_loop(tgt, freq, pre_div + 1,
                                IF DPLLPlan_lt(plan, best) THEN plan ELSE best)

baw_plan_for_freq_fb(tgt, freq, pre_div, best, fb_div) ==
    IF bad_fraction(fb_div) THEN baw_plan_for_freq_loop(tgt, freq, pre_div + 1, best)
    ELSE baw_plan_for_freq_plan(tgt, freq, pre_div, best,
             DPLLPlan(FMul(FMulInt(tgt.reference, 2 * pre_div), fb_div), freq,
                      tgt.pll1_pfd, tgt.reference, pre_div, fb_div))

baw_plan_for_freq_loop(tgt, freq, pre_div, best) ==
    IF pre_div > 17
    THEN IF IsNone(best) THEN Raised("AssertionError") ELSE best
    ELSE baw_plan_for_freq_fb(tgt, freq, pre_div, best,
             limit_denominator(FDivInt(FDivInt(FDiv(freq, tgt.reference), 2), pre_div),
                               FB_DEN_LIMIT - 1))

baw_plan_for_freq(tgt, freq) == baw_plan_for_freq_loop(tgt, freq, 2, NoPlan)

\* half_range of baw_plan_low_approx
HALF_RANGE == 1000

\* The pll1_pfd a DPLLPlan gets when none is passed: 2 * XO_FREQ.
DEFAULT_PLL1_PFD == FMulInt(XO_FREQ, 2)

\* The value `rest` once `first` has been computed: a loop of the source
\* finishes a pass before it starts the next.
in_order(first, rest) == IF first = first THEN rest ELSE rest

\* `a if a is not None else b`
first_of(a, b) == IF IsNone(a) THEN b ELSE a

\* The body of the loop over m of baw_plan_low_approx; acc is [best, error].
baw_plan_low_approx_take(tgt, freq, prediv, ref_mult, m, acc, fb_div, e) ==
    IF FLt(e, acc.error) /\ output_divider("pll2", BIG_DIVIDE, m) # NoPair
    THEN [best  |-> DPLLPlan(FMul(fb_div, ref_mult), FMulInt(freq, m),
                             DEFAULT_PLL1_PFD, tgt.reference, prediv, fb_div),
          error |-> e]
    ELSE acc

baw_plan_low_approx_try(tgt, freq, prediv, ref_mult, m, acc, fb_div) ==
    baw_plan_low_approx_take(tgt, freq, prediv, ref_mult, m, acc, fb_div,
        FAbs(FSub(FDivInt(FMul(fb_div, ref_mult), m), freq)))

baw_plan_low_approx_m(tgt, freq, prediv, ref_mult, m, acc) ==
    baw_plan_low_approx_try(tgt, freq, prediv, ref_mult, m, acc,
        limit_denominator(FMulInt(FDiv(freq, ref_mult), m), FB_DEN_LIMIT))

\* for m in range(lo, hi + 1), folded by halves; the first half is computed
\* before the second, as the passes of the source are.
RECURSIVE baw_plan_low_approx_ms(_, _, _, _, _, _, _)
baw_plan_low_approx_ms(tgt, freq, prediv, ref_mult, lo, hi, acc) ==
    IF lo > hi THEN acc
    ELSE IF lo = hi THEN baw_plan_low_approx_m(tgt, freq, prediv, ref_mult, lo, acc)
    ELSE LET half == baw_plan_low_approx_ms(tgt, freq, prediv, ref_mult, lo,
                                            (lo + hi) \div 2, acc)
         IN  in_order(half, baw_plan_low_approx_ms(tgt, freq, prediv, ref_mult,
                                                   (lo + hi) \div 2 + 1, hi, half))

\* for prediv in range(2, 17 + 1), from prediv on.
RECURSIVE baw_plan_low_approx_predivs(_, _, _, _, _, _)
baw_plan_low_approx_predivs(tgt, freq, prediv, start, end, acc) ==
    IF prediv > 17 THEN acc.best
    ELSE IF bad_fraction(FDiv(FInt(BAW_FREQ), FMulInt(tgt.reference, 2 * prediv)))
    THEN baw_plan_low_approx_predivs(tgt, freq, prediv + 1, start, end, acc)
    ELSE LET next == baw_plan_low_approx_ms(tgt, freq, prediv,
                         FMulInt(tgt.reference, 2 * prediv), start, end, acc)
         IN  in_order(next, baw_plan_low_approx_predivs(tgt, freq, prediv + 1,
                                                        start, end, next))

\* end = min(end, mid + half_range, 1 << 32); start = max(start, end - 2 * half_range)
baw_plan_low_approx_range(tgt, freq, start, end) ==
    baw_plan_low_approx_predivs(tgt, freq, 2, Max(start, end - 2 * HALF_RANGE), end,
                                [best |-> NoPlan, error |-> BAW_HIGH])

baw_plan_low_approx(tgt, freq) ==
    baw_plan_low_approx_range(tgt, freq, Ceil(FDiv(BAW_LOW, freq)),
        Min(Min(Floor(FDiv(BAW_HIGH, freq)),
                Floor(FDiv(FInt(BAW_FREQ), freq)) + HALF_RANGE),
            Pow2(BAW_MULT_BITS)))

\* One pass of sym_range from i on, in steps of 2: the values it yields.
RECURSIVE sym_range_pass(_, _, _, _, _)
sym_range_pass(offset, start, end, i, final) ==
    IF i > final THEN << >>
    ELSE (IF start <= offset - i /\ offset - i <= end THEN << offset - i >> ELSE << >>)
         \o (IF i # 0 /\ start <= offset + i /\ offset + i <= end
             THEN << offset + i >> ELSE << >>)
         \o sym_range_pass(offset, start, end, i + 2, final)

sym_range_passes(offset, start, end, initial, parity, final) ==
    sym_range_pass(offset, start, end, initial + parity, final)
    \o sym_range_pass(offset, start, end, initial + 1 - parity, final)

sym_range_bounds(offset, start, end, initial) ==
    IF start > end THEN << >>
    ELSE sym_range_passes(offset, start, end, initial, (offset + initial) % 2,
                          Max(end - offset, offset - start))

sym_range_offset(offset, start, end) ==
    sym_range_bounds(offset, start, end, Max(Max(0, offset - end), start - offset))

\* sym_range() without its limit
sym_range_unlimited(f, low, high, limit) ==
    sym_range_offset(Floor(FDiv(FDivInt(FAdd(low, high), 2), f)),
                     Ceil(FDiv(low, f)), Floor(FDiv(high, f)))

\* sym_range(f, low, high, limit): the multipliers in the order it yields them.
sym_range(f, low, high, limit) ==
    sym_range_offset(Floor(FDiv(FDivInt(FAdd(low, high), 2), f)),
                     Ceil(FDiv(low, f)), Min(limit, Floor(FDiv(high, f))))

\* The innermost loop of baw_plan_low_exact over stage2s, the values of
\* sym_range, from index k on: the first fb_div whose denominator fits.
RECURSIVE baw_plan_low_exact_stage2(_, _, _, _, _, _, _, _)
baw_plan_low_exact_fb(tgt, freq, stage1, prediv, post_fb_div, fb_base, stage2s, k, fb_div) ==
    IF fb_div[2] < FB_DEN_LIMIT
    THEN IF FMul(post_fb_div, fb_div) # FMulInt(FMulInt(freq, stage1), stage2s[k])
         THEN Raised("AssertionError")
         ELSE DPLLPlan(FMul(post_fb_div, fb_div), FMul(post_fb_div, fb_div),
                       DEFAULT_PLL1_PFD, tgt.reference, prediv, fb_div)
    ELSE baw_plan_low_exact_stage2(tgt, freq, stage1, prediv, post_fb_div, fb_base,
                                   stage2s, k + 1)

baw_plan_low_exact_stage2(tgt, freq, stage1, prediv, post_fb_div, fb_base, stage2s, k) ==
    IF k > Len(stage2s) THEN NoPlan
    ELSE baw_plan_low_exact_fb(tgt, freq, stage1, prediv, post_fb_div, fb_base,
                               stage2s, k, FMulInt(fb_base, stage2s[k]))

\* for prediv in range(2, 17 + 1), from prediv on.
RECURSIVE baw_plan_low_exact_predivs(_, _, _, _, _, _)
baw_plan_low_exact_prediv(tgt, freq, stage1, base, stage2s, prediv, post_fb_div, fb_base) ==
    IF bad_fraction(FDiv(FInt(BAW_FREQ), fb_base))
    THEN baw_plan_low_exact_predivs(tgt, freq, stage1, base, stage2s, prediv + 1)
    ELSE first_of(baw_plan_low_exact_stage2(tgt, freq, stage1, prediv, post_fb_div,
                                            fb_base, stage2s, 1),
                  baw_plan_low_exact_predivs(tgt, freq, stage1, base, stage2s,
                                             prediv + 1))

baw_plan_low_exact_predivs(tgt, freq, stage1, base, stage2s, prediv) ==
    IF prediv > 17 THEN NoPlan
    ELSE baw_plan_low_exact_prediv(tgt, freq, stage1, base, stage2s, prediv,
                                   FMulInt(tgt.reference, 2 * prediv),
                                   FDiv(base, FMulInt(tgt.reference, 2 * prediv)))

baw_plan_low_exact_stage1(tgt, freq, stage1, base) ==
    baw_plan_low_exact_predivs(tgt, freq, stage1, base,
                               sym_range(base, BAW_LOW, BAW_HIGH, STAGE2_MAX), 2)

\* for stage1 in range(lo, hi + 1), by halves: the first plan found.
RECURSIVE baw_plan_low_exact_stage1s(_, _, _, _)
baw_plan_low_exact_stage1s(tgt, freq, lo, hi) ==
    IF lo = hi THEN baw_plan_low_exact_stage1(tgt, freq, lo, FMulInt(freq, lo))
    ELSE first_of(baw_plan_low_exact_stage1s(tgt, freq, lo, (lo + hi) \div 2),
                  baw_plan_low_exact_stage1s(tgt, freq, (lo + hi) \div 2 + 1, hi))

baw_plan_low_exact(tgt, freq) == baw_plan_low_exact_stage1s(tgt, freq, 6, 256)

\* baw_plan_low(target, freq)
baw_plan_low(tgt, freq) ==
    IF FLt(freq, FDivInt(BAW_LOW, Pow2(BAW_MULT_BITS))) THEN NoPlan
    ELSE first_of(baw_plan_low_exact(tgt, freq), baw_plan_low_approx(tgt, freq))

\* single_baw_mult(freq): the multiple, or 0 for None.
single_baw_mult(freq) ==
    IF Ceil(FDiv(BAW_LOW, freq)) = Floor(FDiv(BAW_HIGH, freq))
    THEN Ceil(FDiv(BAW_LOW, freq)) ELSE 0

\* How a call ends that returns `plan` unless making it raised.
returning(plan) ==
    IF IsRaised(plan) THEN [out |-> plan.raised, plan |-> NoPlan]
    ELSE [out |-> "returned", plan |-> plan]

\* dpll_plan with a pll1_base.
dpll_plan_base(tgt) ==
    IF single_baw_mult(tgt.pll1_base) = 0
    THEN [out |-> "AssertionError", plan |-> NoPlan]
    ELSE returning(baw_plan_for_freq(tgt, FMulInt(tgt.pll1_base,
                                                  single_baw_mult(tgt.pll1_base))))

\* default = baw_plan_for_freq(target, BAW_FREQ); default.baw_target = default.baw
with_target(plan) ==
    IF IsRaised(plan) THEN plan ELSE [plan EXCEPT !.baw_target = plan.baw]

dpll_plan_default(tgt) == with_target(baw_plan_for_freq(tgt, FInt(BAW_FREQ)))

\* counts[baw] = 1 + counts.get(baw, 0); counts is a function on the
\* frequencies it has as keys.
counts_add(counts, baw) ==
    [ f \in DOMAIN counts \cup {baw} |->
      IF f \in DOMAIN counts
      THEN IF f = baw THEN counts[f] + 1 ELSE counts[f]
      ELSE 1 ]

\* The loop of dpll_plan over target.freqs from index i on:
\* [use_default, counts], use_default when the loop returns the default.
RECURSIVE dpll_plan_counts(_, _, _, _)
dpll_plan_counts(tgt, dflt, i, counts) ==
    IF i >= Len(tgt.freqs) THEN [use_default |-> FALSE, counts |-> counts]
    ELSE IF IsZero(tgt.freqs[i + 1])
    THEN dpll_plan_counts(tgt, dflt, i + 1, counts)
    ELSE IF ~Falsy(tgt.pll2_base) /\ is_multiple_of(tgt.pll2_base, tgt.freqs[i + 1])
    THEN dpll_plan_counts(tgt, dflt, i + 1, counts)
    ELSE IF /\ is_multiple_of(dflt.baw, tgt.freqs[i + 1])
            /\ output_divider("pll2", i, FloorDiv(dflt.baw, tgt.freqs[i + 1])) # NoPair
    THEN [use_default |-> TRUE, counts |-> counts]
    ELSE IF /\ single_baw_mult(tgt.freqs[i + 1]) # 0
            /\ output_divider("pll2", i, single_baw_mult(tgt.freqs[i + 1])) # NoPair
    THEN dpll_plan_counts(tgt, dflt, i + 1,
             counts_add(counts, FMulInt(tgt.freqs[i + 1],
                                        single_baw_mult(tgt.freqs[i + 1]))))
    ELSE dpll_plan_counts(tgt, dflt, i + 1, counts)

\* bd = target.freqs[BIG_DIVIDE], or Fraction() for a short list.
big_divide_freq(tgt) ==
    IF BIG_DIVIDE < Len(tgt.freqs) THEN tgt.freqs[BIG_DIVIDE + 1] ELSE ZERO

\* "Re-assess the B_D frequency": the counts after it.
dpll_plan_reassess(tgt, bd, counts) ==
    IF /\ ~IsZero(bd) /\ ~force_pll2(tgt, bd)
       /\ Ceil(FDiv(BAW_LOW, bd)) < Floor(FDiv(BAW_HIGH, bd))
    THEN [ f \in DOMAIN counts |->
           IF /\ is_multiple_of(f, bd)
              /\ output_divider("pll2", BIG_DIVIDE, FloorDiv(f, bd)) # NoPair
           THEN counts[f] + 1 ELSE counts[f] ]
    ELSE counts

\* The branch of dpll_plan for len(counts) == 0.
dpll_plan_nothing(tgt, bd, dflt) ==
    IF ~IsZero(bd) /\ ~force_pll2(tgt, bd) /\ FLe(bd, FSub(BAW_HIGH, BAW_LOW))
    THEN returning(first_of(baw_plan_low(tgt, bd), dflt))
    ELSE returning(dflt)

\* possible.sort(reverse=True): the frequencies by falling (count, freq).
RECURSIVE dpll_plan_possible(_, _)
dpll_plan_possible(counts, S) ==
    IF S = {} THEN << >>
    ELSE LET top == CHOOSE f \in S : \A g \in S :
                        \/ counts[g] < counts[f]
                        \/ counts[g] = counts[f] /\ FLe(g, f)
         IN  << top >> \o dpll_plan_possible(counts, S \ {top})

\* The last loop of dpll_plan over possible from index k on.
RECURSIVE dpll_plan_best(_, _, _, _)
dpll_plan_better(tgt, possible, k, best, plan) ==
    IF IsRaised(plan) THEN plan
    ELSE dpll_plan_best(tgt, possible, k + 1,
                        IF DPLLPlan_lt(plan, best) THEN plan ELSE best)

dpll_plan_best(tgt, possible, k, best) ==
    IF k > Len(possible)
    THEN IF IsNone(best) THEN Raised("AssertionError") ELSE best
    ELSE dpll_plan_better(tgt, possible, k, best,
                          baw_plan_for_freq(tgt, possible[k]))

\* dpll_plan(target): [out, plan].
dpll_plan_counted(tgt, dflt, counted, counts) ==
    IF counted.use_default THEN returning(dflt)
    ELSE IF DOMAIN counts = {} THEN dpll_plan_nothing(tgt, big_divide_freq(tgt), dflt)
    ELSE returning(dpll_plan_best(tgt, dpll_plan_possible(counts, DOMAIN counts),
                                  1, NoPlan))

dpll_plan_with(tgt, dflt, counted) ==
    dpll_plan_counted(tgt, dflt, counted,
                      dpll_plan_reassess(tgt, big_divide_freq(tgt), counted.counts))

dpll_plan_from(tgt, dflt) ==
    IF IsRaised(dflt) THEN returning(dflt)
    ELSE dpll_plan_with(tgt, dflt, dpll_plan_counts(tgt, dflt, 0, << >>))

dpll_plan(tgt) ==
    IF ~Falsy(tgt.pll1_base) THEN dpll_plan_base(tgt)
    ELSE dpll_plan_from(tgt, dpll_plan_default(tgt))

\* ------------------------------------------------------------------------
\* Register and MaskedBytes (lmk05318b.py), masked writes (lmk05318b_util.py)
\* ------------------------------------------------------------------------

\* The mask of a byte that is written whole.
FULL_MASK == 255

BYTE == FULL_MASK + 1

\* The bytes of the register image (500 in the source).
DATA_SIZE == 37

\* Addresses run from 0, the bytes of an image from 1.
Addresses == 0..(DATA_SIZE - 1)

\* a & b, a | b for a, b >= 0
RECURSIVE BitAnd(_, _)
BitAnd(a, b) ==
    IF a = 0 \/ b = 0 THEN 0
    ELSE (a % 2) * (b % 2) + 2 * BitAnd(a \div 2, b \div 2)

RECURSIVE BitOr(_, _)
BitOr(a, b) ==
    IF a = 0 THEN b
    ELSE IF b = 0 THEN a
    ELSE Max(a % 2, b % 2) + 2 * BitOr(a \div 2, b \div 2)

\* a & ~b for a, b >= 0: the bits of a that b does not have.
BitAndNot(a, b) == a - BitAnd(a, b)

\* Bit n of a.
Bit(a, n) == (a \div Pow2(n)) % 2

\* A Register, as MaskedBytes uses it.
Register(base_address, byte_span, shift, width) ==
    [base_address |-> base_address, byte_span |-> byte_span,
     shift |-> shift, width |-> width]

\* struct.pack('>Q', value)[-byte_span:]: the low byte_span bytes, the
\* highest first.
pack_bytes(value, byte_span) ==
    [ i \in 1..byte_span |-> (value \div Pow2(8 * (byte_span - i))) % BYTE ]

\* struct.unpack('>Q', ...) of the bytes of bb from address base on.
RECURSIVE unpack_bytes(_, _, _)
unpack_bytes(bb, base_address, byte_span) ==
    IF byte_span = 0 THEN 0
    ELSE unpack_bytes(bb, base_address, byte_span - 1) * BYTE
         + bb[base_address + byte_span]

\* Register.extract(bb)
Register_extract(r, bb) ==
    (unpack_bytes(bb, r.base_address, r.byte_span) \div Pow2(r.shift)) % Pow2(r.width)

\* MaskedBytes(): data and mask, all zero.
MaskedBytes == [data |-> [a \in 1..DATA_SIZE |-> 0], mask |-> [a \in 1..DATA_SIZE |-> 0]]

MaskedBytes_extract(masked, r) == Register_extract(r, masked.data)

MaskedBytes_extract_mask(masked, r) == Register_extract(r, masked.mask)

\* An insert that keeps the bits the byte had.
insert_data_kept(old, data, mask) == BitOr(old, BitAnd(data, mask))

\* The loop body of MaskedBytes.insert for the byte at address j, with the
\* bytes `data` and `mask` of the value and of the value's mask.
insert_data(old, data, mask) == BitOr(BitAndNot(old, mask), BitAnd(data, mask))

\* MaskedBytes.insert(r, value)
MaskedBytes_insert(masked, r, value) ==
    LET data == pack_bytes(value * Pow2(r.shift), r.byte_span)
        mask == pack_bytes((Pow2(r.width) - 1) * Pow2(r.shift), r.byte_span)
        in_r(j) == j > r.base_address /\ j <= r.base_address + r.byte_span
    IN  [data |-> [ j \in 1..DATA_SIZE |->
                    IF in_r(j)
                    THEN insert_data(masked.data[j], data[j - r.base_address],
                                     mask[j - r.base_address])
                    ELSE masked.data[j] ],
         mask |-> [ j \in 1..DATA_SIZE |->
                    IF in_r(j) THEN BitOr(masked.mask[j], mask[j - r.base_address])
                    ELSE masked.mask[j] ]]

\* The `select` of MaskedBytes.ranges: the default, and that of
\* complete_partials.
select_mask(select, m) ==
    IF select = "partial" THEN m # 0 /\ m # FULL_MASK ELSE m # 0

\* MaskedBytes.ranges letting a run grow one past max_block.
RECURSIVE ranges_from_over(_, _, _, _, _, _)
ranges_from_over(mask, select, max_block, i, addr, span) ==
    IF i >= DATA_SIZE
    THEN IF addr # -1 THEN << << addr, span >> >> ELSE << >>
    ELSE IF ~select_mask(select, mask[i + 1])
    THEN ranges_from_over(mask, select, max_block, i + 1, addr, span)
    ELSE IF addr # -1 /\ addr + span = i /\ span <= max_block
    THEN ranges_from_over(mask, select, max_block, i + 1, addr, span + 1)
    ELSE (IF addr # -1 THEN << << addr, span >> >> ELSE << >>)
         \o ranges_from_over(mask, select, max_block, i + 1, i, 1)

\* MaskedBytes.ranges(select, max_block) from index i on, with the run
\* (addr, span) it has open (addr = -1 for None).
RECURSIVE ranges_from(_, _, _, _, _, _)
ranges_from(mask, select, max_block, i, addr, span) ==
    IF i >= DATA_SIZE
    THEN IF addr # -1 THEN << << addr, span >> >> ELSE << >>
    ELSE IF ~select_mask(select, mask[i + 1])
    THEN ranges_from(mask, select, max_block, i + 1, addr, span)
    ELSE IF addr # -1 /\ addr + span = i /\ span < max_block
    THEN ranges_from(mask, select, max_block, i + 1, addr, span + 1)
    ELSE (IF addr # -1 THEN << << addr, span >> >> ELSE << >>)
         \o ranges_from(mask, select, max_block, i + 1, i, 1)

MaskedBytes_ranges(masked, select, max_block) ==
    ranges_from(masked.mask, select, max_block, 0, -1, 0)

\* The addresses of a list of ranges.
RangeAddresses(ranges) ==
    { a \in Addresses : \E k \in 1..Len(ranges) :
        a >= ranges[k][1] /\ a < ranges[k][1] + ranges[k][2] }

\* get_ranges(dev, data, ranges): the data after the reads, `device` being
\* the registers of the device.
get_ranges(device, masked, ranges) ==
    [masked EXCEPT !.data = [ j \in 1..DATA_SIZE |->
        IF j - 1 \in RangeAddresses(ranges) THEN device[j] ELSE masked.data[j] ]]

\* The longest burst of a read or a write (32 in the source).
MAX_BLOCK == 2

\* complete_partials without the reads of the device.
complete_partials_unfilled(device, masked) ==
    [masked EXCEPT !.mask = [ j \in 1..DATA_SIZE |->
        IF masked.mask[j] # 0 THEN FULL_MASK ELSE masked.mask[j] ]]

\* complete_partials(dev, data): the data after it.
complete_partials(device, masked) ==
    LET ranges == MaskedBytes_ranges(masked, "partial", MAX_BLOCK)
        gaps == get_ranges(device, MaskedBytes, ranges)
    IN  [data |-> [ j \in 1..DATA_SIZE |->
                    IF j - 1 \in RangeAddresses(ranges)
                    THEN BitOr(BitAnd(masked.data[j], masked.mask[j]),
                               BitAndNot(gaps.data[j], masked.mask[j]))
                    ELSE masked.data[j] ],
         mask |-> [ j \in 1..DATA_SIZE |->
                    IF j - 1 \in RangeAddresses(ranges) THEN FULL_MASK
                    ELSE masked.mask[j] ]]

\* The addresses masked_write never writes.
NeverWritten == (0..11) \cup {13, 14}

\* masked_write without the clearing of the masks.
masked_write_data_uncleared(device, masked) == complete_partials(device, masked)

\* masked_write(dev, data) up to the writes: the data it writes from.
masked_write_data(device, masked) ==
    complete_partials(device,
        [masked EXCEPT !.mask = [ j \in 1..DATA_SIZE |->
            IF j - 1 \in NeverWritten THEN 0 ELSE masked.mask[j] ]])

\* data.data[base : base + span]
slice(data, base, span) == [ i \in 1..span |-> data[base + i] ]

\* The writes of masked_write, << base, bytes >> each, in the order of the
\* calls of message.lmk05318b_write.
masked_write_writes(device, masked) ==
    LET data == masked_write_data(device, masked)
        ranges == MaskedBytes_ranges(data, "nonzero", MAX_BLOCK)
    IN  [ k \in 1..Len(ranges) |->
          << ranges[k][1], slice(data.data, ranges[k][1], ranges[k][2]) >> ]

\* The registers of the device after the writes from index k on.
RECURSIVE written_device(_, _, _)
written_device(device, writes, k) ==
    IF k > Len(writes) THEN device
    ELSE written_device(
             [ j \in 1..DATA_SIZE |->
               IF j > writes[k][1] /\ j <= writes[k][1] + Len(writes[k][2])
               THEN writes[k][2][j - writes[k][1]] ELSE device[j] ],
             writes, k + 1)

\* masked_write(dev, data): the registers of the device after the writes.
masked_write_device(device, masked) ==
    written_device(device, masked_write_writes(device, masked), 1)

\* ------------------------------------------------------------------------
\* add_live_lmk05318b(dev, b) (config.py)
\* ------------------------------------------------------------------------

\* The addresses load_lmk05318b leaves out.
SKIP ==
    (0..11) \cup {13, 14, 17, 18, 19, 20} \cup (123..127)
    \cup {155, 156, 157, 158, 159, 161, 162, 164} \cup {168}

\* The first address load_lmk05318b leaves out at the top (352 in the
\* source).
SKIP_ABOVE == 35

\* RESET_SW, bit 7 of R12.
RESET_SW == Register(12, 1, 7, 1)

\* lmk05318b.ADDRESSES: the addresses the register table has.  Address 12
\* is one of them, the table having the register RESET_SW.
AddressTables ==
    { Addresses, Addresses \ {16}, {12, 15, 16} \cup (21..30), (8..20) \cup (33..36) }

\* load_lmk05318b(dev): the mask of the addresses that are saved, and their
\* data read from the device.
load_lmk05318b(addresses, device) ==
    LET saved(j) == (j - 1) \in addresses /\ j - 1 < SKIP_ABOVE /\ (j - 1) \notin SKIP
        mask == [ j \in 1..DATA_SIZE |-> IF saved(j) THEN FULL_MASK ELSE 0 ]
    IN  get_ranges(device, [MaskedBytes EXCEPT !.mask = mask],
                   MaskedBytes_ranges([MaskedBytes EXCEPT !.mask = mask], "nonzero", MAX_BLOCK))

\* MaskedBytes.bundle(max_block = ...) from index i on, with the block
\* (current_addr, current_data) it has open (current_addr = -1 for None):
\* the blocks in the order of their keys.
RECURSIVE bundle_from(_, _, _, _, _)
bundle_from(masked, max_block, i, current_addr, current_data) ==
    IF i >= DATA_SIZE
    THEN IF current_addr # -1 THEN << << current_addr, current_data >> >> ELSE << >>
    ELSE IF masked.mask[i + 1] = 0
    THEN bundle_from(masked, max_block, i + 1, current_addr, current_data)
    ELSE IF current_addr # -1 /\ i = current_addr + Len(current_data)
            /\ Len(current_data) < max_block
    THEN bundle_from(masked, max_block, i + 1, current_addr,
                     Append(current_data, masked.data[i + 1]))
    ELSE (IF current_addr # -1 THEN << << current_addr, current_data >> >> ELSE << >>)
         \o bundle_from(masked, max_block, i + 1, i, << masked.data[i + 1] >>)

MaskedBytes_bundle(masked, max_block) == bundle_from(masked, max_block, 0, -1, << >>)

\* lmk05318b_write(b, 12, lmk_config.data[12])
reset_write(lmk_config) == << 12, << lmk_config.data[13] >> >>

\* add_live_lmk05318b with the last write made whatever RESET_SW was.
add_live_lmk05318b_always(addresses, device) ==
    LET loaded == load_lmk05318b(addresses, device)
        orig_reset_sw == MaskedBytes_extract(loaded, RESET_SW)
        lmk_config == MaskedBytes_insert(loaded, RESET_SW, 1)
        bundled == << reset_write(lmk_config) >> \o MaskedBytes_bundle(lmk_config, MAX_BLOCK)
        restored == MaskedBytes_insert(lmk_config, RESET_SW, orig_reset_sw)
    IN  [config |-> restored, writes |-> Append(bundled, reset_write(restored))]

\* add_live_lmk05318b(dev, b): [config, writes], the image at the end and
\* the writes recorded in b.
add_live_lmk05318b(addresses, device) ==
    LET loaded == load_lmk05318b(addresses, device)
        orig_reset_sw == MaskedBytes_extract(loaded, RESET_SW)
        lmk_config == MaskedBytes_insert(loaded, RESET_SW, 1)
        bundled == << reset_write(lmk_config) >> \o MaskedBytes_bundle(lmk_config, MAX_BLOCK)
        restored == MaskedBytes_insert(lmk_config, RESET_SW, orig_reset_sw)
    IN  IF orig_reset_sw # 1
        THEN [config |-> restored, writes |-> Append(bundled, reset_write(restored))]
        ELSE [config |-> lmk_config, writes |-> bundled]

\* ------------------------------------------------------------------------
\* Bytes, words and checksums (crc32.py, message.py, ublox_msg.py)
\* ------------------------------------------------------------------------

\* x ^ y on bits-bit integers.
RECURSIVE xor_bits(_, _, _)
xor_bits(x, y, bits) == IF bits = 0 THEN 0 ELSE ((x + y) % 2) + 2 * xor_bits(x \div 2, y \div 2, bits - 1)

NIBBLE_XOR == [x \in 0..15 |-> [y \in 0..15 |-> xor_bits(x, y, 4)]]

\* x ^ y on bytes.
xor8(x, y) == 16 * NIBBLE_XOR[x \div 16][y \div 16] + NIBBLE_XOR[(x % 16)][(y % 16)]

\* A 32-bit word is the tuple of its four bytes, the most significant
\* first, and a 16-bit word that of its two: their values do not fit the
\* integers of the checker.  x ^ y on words.
word_xor(x, y) == IF Len(x) = 2 THEN << xor8(x[1], y[1]), xor8(x[2], y[2]) >> ELSE << xor8(x[1], y[1]), xor8(x[2], y[2]), xor8(x[3], y[3]), xor8(x[4], y[4]) >>

\* x << 1 cut to the width of x, and the bit that leaves it.
shl1(hi, lo) == ((2 * hi) % 256) + (lo \div 128)

word_shl1(x) == IF Len(x) = 2 THEN << shl1(x[1], x[2]), shl1(x[2], 0) >> ELSE << shl1(x[1], x[2]), shl1(x[2], x[3]), shl1(x[3], x[4]), shl1(x[4], 0) >>

word_top(x) == x[1] \div 128

\* x < y on words, and on the words with one bit more on top of each:
\* << top, word >>.
RECURSIVE word_less_from(_, _, _)
word_less_from(x, y, i) == IF i > Len(x) THEN FALSE ELSE IF x[i] # y[i] THEN x[i] < y[i] ELSE word_less_from(x, y, i + 1)

word_less(x, y) == word_less_from(x, y, 1)

wide_less(x, y) == IF x[1] # y[1] THEN x[1] < y[1] ELSE word_less(x[2], y[2])

wide_min(x, y) == IF wide_less(y, x) THEN y ELSE x

\* dbl ^ POLY ^ (1 << width)
wide_flip(dbl, poly) == << 1 - dbl[1], word_xor(dbl[2], poly) >>

\* dbl = CRCTAB[i] << 1; dbl = min(dbl, dbl ^ POLY ^ (1 << width))
crctab_double(entry_i, poly) == wide_min(<< word_top(entry_i), word_shl1(entry_i) >>, wide_flip(<< word_top(entry_i), word_shl1(entry_i) >>, poly))[2]

\* for i in range(1, 128): assert len(CRCTAB) == 2 * i, then
\* CRCTAB.extend((dbl, dbl ^ POLY))
RECURSIVE crctab_extend(_, _, _)
crctab_extend(tab, i, poly) == IF i = 128 \/ Len(tab) # 2 * i THEN tab ELSE crctab_extend(tab \o << crctab_double(tab[i + 1], poly), word_xor(crctab_double(tab[i + 1], poly), poly) >>, i + 1, poly)

\* CRCTAB = (0, POLY) and the loop; CRCTAB[n] of the source is crctab[n + 1].
crctab(poly) == crctab_extend(<< word_xor(poly, poly), poly >>, 1, poly)

\* crc32.POLY = 0x04c11db7
crc32_POLY == << 4, 193, 29, 183 >>

crc32_CRCTAB == crctab(crc32_POLY)

\* crc32.VERIFY_MAGIC = 0x38fb2284
VERIFY_MAGIC == << 56, 251, 34, 132 >>

ALL_ONES == << 255, 255, 255, 255 >>

\* result = result << 8 & 0xffffff00 ^ CRCTAB[result >> 24 ^ b]
crc32_step(result, b) == word_xor(<< result[2], result[3], result[4], 0 >>, crc32_CRCTAB[xor8(result[1], b) + 1])

\* for b in bb over bb[lo..hi], the first half before the second; result
\* is a word.
RECURSIVE crc32_over(_, _, _, _)
crc32_over(bb, lo, hi, result) ==
    IF lo > hi \/ Len(result) # 4 THEN result
    ELSE IF lo = hi THEN crc32_step(result, bb[lo])
    ELSE crc32_over(bb, ((lo + hi) \div 2) + 1, hi, crc32_over(bb, lo, (lo + hi) \div 2, result))

\* crc32(bb), as the four bytes of struct.pack('>I', crc32(bb)).
crc32(bb) == word_xor(crc32_over(bb, 1, Len(bb), ALL_ONES), ALL_ONES)

\* message.POLY = 0x1021
message_POLY == << 16, 33 >>

message_CRCTAB == crctab(message_POLY)

\* result = result << 8 & 0xff00 ^ CRCTAB[result >> 8 ^ b]
crc16_step(result, b) == word_xor(<< result[2], 0 >>, message_CRCTAB[xor8(result[1], b) + 1])

RECURSIVE crc16_over(_, _, _, _)
crc16_over(bb, lo, hi, result) ==
    IF lo > hi \/ Len(result) # 2 THEN result
    ELSE IF lo = hi THEN crc16_step(result, bb[lo])
    ELSE crc16_over(bb, ((lo + hi) \div 2) + 1, hi, crc16_over(bb, lo, (lo + hi) \div 2, result))

\* crc16(bb), as the two bytes of struct.pack('>H', crc16(bb)).
crc16(bb) == crc16_over(bb, 1, Len(bb), << 0, 0 >>)

\* struct.pack('<I', x) of a word and struct.unpack('<I', b) of four bytes.
pack_le(x) == << x[4], x[3], x[2], x[1] >>

unpack_le(b) == << b[4], b[3], b[2], b[1] >>

\* The word of a number that fits the integers of the checker.
word_of(n) == << (n \div 16777216) % 256, (n \div 65536) % 256, (n \div 256) % 256, n % 256 >>

\* x + 1 on words; struct.pack raises past 0xffffffff.
RECURSIVE word_inc_from(_, _)
word_inc_from(x, i) == IF i = 0 THEN x ELSE IF x[i] < 255 THEN [x EXCEPT ![i] = @ + 1] ELSE word_inc_from([x EXCEPT ![i] = 0], i - 1)

word_inc(x) == word_inc_from(x, Len(x))

rep(b, n) == [i \in 1..n |-> b]

\* ------------------------------------------------------------------------
\* Framed messages (message.py) and UBX frames (ublox_msg.py)
\* ------------------------------------------------------------------------

\* message.MAGIC = b'\xce\x93'
message_MAGIC == << 206, 147 >>

SERIAL_SYNC == 30

GET_SET_BAUD == 31

LMK05318B_WRITE == 96

LMK05318B_STATUS == 104

\* The code of the name messages: message.py of this tree has no
\* GET_SET_NAME, get_name or set_name; the code is one the file leaves free.
GET_SET_NAME == 4

\* frame(code, payload, limit = 64) asserts len(payload) + 6 <= limit.
FRAME_LIMIT == 64

frame_fits(payload) == Len(payload) + 6 <= FRAME_LIMIT

framed(code, payload) == message_MAGIC \o << code, Len(payload) >> \o payload

\* frame(code, payload)
frame(code, payload) == framed(code, payload) \o crc16(framed(code, payload))

Message(code, payload) == [out |-> "Message", code |-> code, payload |-> payload]

ValueError(why) == [out |-> "ValueError", why |-> why]

\* deframe() without the test of the CRC
deframe_unchecked(message) ==
    IF Len(message) < 6 THEN ValueError("Under-length message")
    ELSE IF SubSeq(message, 1, 2) # message_MAGIC THEN ValueError("Incorrect magic")
    ELSE IF Len(message) # message[4] + 6 THEN ValueError("Length mismatch")
    ELSE Message(message[3], SubSeq(message, 5, Len(message) - 2))

\* deframe(message)
deframe(message) ==
    IF Len(message) < 6 THEN ValueError("Under-length message")
    ELSE IF SubSeq(message, 1, 2) # message_MAGIC THEN ValueError("Incorrect magic")
    ELSE IF crc16(message) # << 0, 0 >> THEN ValueError("Bad CRC")
    ELSE IF Len(message) # message[4] + 6 THEN ValueError("Length mismatch")
    ELSE Message(message[3], SubSeq(message, 5, Len(message) - 2))

\* serial_sync(b, microseconds) and set_baud(b, baud) on a bytearray: the
\* frame command() appends.
serial_sync(microseconds) == frame(SERIAL_SYNC, pack_le(word_of(microseconds)))

set_baud(baud) == frame(GET_SET_BAUD, pack_le(word_of(baud)))

\* lmk05318b_write(b, address, data): struct.pack('>H', address) + data
lmk05318b_write(address, data) == frame(LMK05318B_WRITE, << address \div 256, address % 256 >> \o data)

\* set_name(b, name)
set_name(name) == frame(GET_SET_NAME, name)

\* ublox_msg.checksum(data): << ckA, ckB >>
RECURSIVE checksum_from(_, _, _, _)
checksum_from(data, i, ckA, ckB) == IF i > Len(data) THEN << ckA, ckB >> ELSE checksum_from(data, i + 1, (ckA + data[i]) % 256, (ckB + ((ckA + data[i]) % 256)) % 256)

checksum(data) == checksum_from(data, 1, 0, 0)

ublox_frame(data) == << 181, 98 >> \o data \o checksum(data)

\* UBloxMsg.frame_payload(b): code is the two bytes of struct.pack('<H', code).
frame_payload(code, b) == ublox_frame(code \o << Len(b) % 256, Len(b) \div 256 >> \o b)

\* CFG-VALSET is message 0x06 0x8a and CFG-UART1-BAUDRATE key 0x40520001 in
\* the receiver's interface description, from which the tables are read.
CFG_VALSET == << 6, 138 >>

UART1_BAUDRATE == << 64, 82, 0, 1 >>

\* ublox_cfg.val_byte_len(key)
val_byte_len(key) == << 0, 1, 1, 2, 4, 8 >>[(key[1] \div 16) + 1]

\* UBloxCfg.encode_value(v): struct.pack('<' + type, v)
RECURSIVE le_bytes(_, _)
le_bytes(v, n) == IF n = 0 THEN << >> ELSE << v % 256 >> \o le_bytes(v \div 256, n - 1)

\* UBloxCfg.encode_key_value(v) of kv = << key, v >>
encode_key_value(kv) == pack_le(kv[1]) \o le_bytes(kv[2], val_byte_len(kv[1]))

RECURSIVE concat(_)
concat(seqs) == IF seqs = << >> THEN << >> ELSE Head(seqs) \o concat(Tail(seqs))

Min2(x, y) == IF x < y THEN x ELSE y

\* set_ubx(b, kv): one CFG-VALSET frame for every eight items.
RECURSIVE set_ubx_from(_, _)
set_ubx_from(kv, base) ==
    IF base >= Len(kv) THEN << >>
    ELSE frame_payload(CFG_VALSET, << 0, 1, 0, 0 >> \o concat([i \in 1..(Min2(base + 8, Len(kv)) - base) |-> encode_key_value(kv[base + i])]))
         \o set_ubx_from(kv, base + 8)

set_ubx(kv) == set_ubx_from(kv, 0)

\* add_live_baud_rate(ubx, b) for the receiver ubx = [baud_rom, baud_now, changes].
add_live_baud_rate(ubx) ==
    set_baud(ubx.baud_rom) \o serial_sync(100000)
    \o (IF ubx.baud_now # ubx.baud_rom
        THEN set_ubx(<< << UART1_BAUDRATE, ubx.baud_now >> >>) \o serial_sync(10000) \o set_baud(ubx.baud_now) \o serial_sync(100000)
        ELSE << >>)

\* add_live_ublox(ubx, b); ubx.changes is what get_config_changes returns.
add_live_ublox(ubx) == set_ubx(SelectSeq(ubx.changes, LAMBDA kv : kv[1] # UART1_BAUDRATE))

\* ------------------------------------------------------------------------
\* Configuration blobs in flash (config.py)
\* ------------------------------------------------------------------------

\* config.MAGIC = 0x4b72a6ce
MAGIC == << 75, 114, 166, 206 >>

VERSION == word_of(1)

\* The size of a slot, 2048 in config.py, and the slots of a sector that
\* flash_erase erases.
SLOT_SIZE == 128

SECTOR_SLOTS == 4

\* 0x0800c000 and 0x0801c000
FIRST_BANK == 134266880

SECOND_BANK == 134332416

\* config.ADDRESSES, stepped by the size of a slot.
ADDRESSES == [i \in 1..16 |-> IF i <= 8 THEN FIRST_BANK + (i - 1) * SLOT_SIZE ELSE SECOND_BANK + (i - 9) * SLOT_SIZE]

\* 0x0801e000 in next_header: the second sector of the second bank.
SECOND_SECTOR == SECOND_BANK + SECTOR_SLOTS * SLOT_SIZE

\* The flash is the bytes of the sixteen slots in the order of ADDRESSES.
flash_offset(address) == IF address >= SECOND_BANK THEN 8 * SLOT_SIZE + (address - SECOND_BANK) ELSE address - FIRST_BANK

\* message.peek(dev, address, length)
peek(mem, address, length) == SubSeq(mem, flash_offset(address) + 1, Min2(flash_offset(address) + length, Len(mem)))

\* message.crc(dev, address, length): the device's CRC-32 of the bytes.
device_crc(mem, address, length) == crc32(peek(mem, address, length))

\* message.poke(dev, address, data)
poke(mem, address, data) == [i \in 1..Len(mem) |-> IF i > flash_offset(address) /\ i <= flash_offset(address) + Len(data) THEN data[i - flash_offset(address)] ELSE mem[i]]

\* message.flash_erase(dev, address): the sector at address reads 0xff.
flash_erase(mem, address) == [i \in 1..Len(mem) |-> IF i > flash_offset(address) /\ i <= flash_offset(address) + SECTOR_SLOTS * SLOT_SIZE THEN 255 ELSE mem[i]]

\* The integer of a word below 2^31.
word_int(x) == ((x[1] * 256 + x[2]) * 256 + x[3]) * 256 + x[4]

word_le(x, y) == ~ word_less(y, x)

Config(address, header) == [content |-> << >>, address |-> address, magic |-> unpack_le(SubSeq(header, 1, 4)), version |-> unpack_le(SubSeq(header, 5, 8)), generation |-> unpack_le(SubSeq(header, 9, 12)), length |-> unpack_le(SubSeq(header, 13, 16))]

NoConfig == [address |-> 0, content |-> << >>]

\* Config.is_valid()
is_valid(h) == h.magic = MAGIC /\ word_le(word_of(20), h.length) /\ word_le(h.length, word_of(SLOT_SIZE))

\* get_headers(dev)
get_headers(mem) == [i \in 1..16 |-> Config(ADDRESSES[i], peek(mem, ADDRESSES[i], 16))]

\* The sort key (h.generation, h.address)
header_before(g, h) == IF g.generation # h.generation THEN word_less(g.generation, h.generation) ELSE g.address < h.address

RECURSIVE sort_insert(_, _)
sort_insert(sorted, h) ==
    IF sorted = << >> THEN << h >>
    ELSE IF header_before(h, Head(sorted)) THEN << h >> \o sorted
    ELSE << Head(sorted) >> \o sort_insert(Tail(sorted), h)

RECURSIVE sort_headers(_)
sort_headers(hs) == IF hs = << >> THEN << >> ELSE sort_insert(sort_headers(SubSeq(hs, 1, Len(hs) - 1)), hs[Len(hs)])

verifies(mem, h) == device_crc(mem, h.address, word_int(h.length)) = VERIFY_MAGIC

\* The last header of the sorted list, its CRC unverified.
active_from_unverified(mem, hs, k) == IF k = 0 THEN NoConfig ELSE hs[k]

\* for h in reversed(best): the first whose CRC verifies, or None.
RECURSIVE active_from(_, _, _)
active_from(mem, hs, k) == IF k = 0 THEN NoConfig ELSE IF verifies(mem, hs[k]) THEN hs[k] ELSE active_from(mem, hs, k - 1)

\* active_header(dev, headers)
active_header(mem, headers) == active_from(mem, sort_headers(SelectSeq(headers, is_valid)), Len(SelectSeq(headers, is_valid)))

\* CRC_EMPTY_CONFIG, the value test_crc_empty_config() asserts it has:
\* the CRC-32 of an erased slot.
CRC_EMPTY_CONFIG == crc32(rep(255, SLOT_SIZE))

\* config_is_empty(dev, h)
config_is_empty(mem, h) ==
    /\ h.magic = ALL_ONES /\ h.version = ALL_ONES
    /\ h.generation = ALL_ONES /\ h.length = ALL_ONES
    /\ device_crc(mem, h.address, SLOT_SIZE) = CRC_EMPTY_CONFIG
    /\ peek(mem, h.address, SLOT_SIZE) = rep(255, SLOT_SIZE)

\* A next_header that scans the slots in one order wherever the current
\* config is.
next_scan_fixed(current) == << 9, 10, 11, 12, 13, 14, 15, 16 >>

\* The slots next_header scans, as indexes of headers from 1.
next_scan(current) == IF current # NoConfig /\ current.address >= SECOND_SECTOR THEN << 13, 14, 15, 16, 9, 10, 11, 12 >> ELSE << 9, 10, 11, 12, 13, 14, 15, 16 >>

RECURSIVE first_empty(_, _, _, _)
first_empty(mem, headers, scan, k) == IF k > Len(scan) THEN 0 ELSE IF config_is_empty(mem, headers[scan[k]]) THEN scan[k] ELSE first_empty(mem, headers, scan, k + 1)

\* next_header() looking for an empty slot in the first four slots of its
\* scan only
next_header_preferred(mem, headers, current) ==
    LET found == first_empty(mem, headers, SubSeq(next_scan(current), 1, 4), 1)
    IN  IF found # 0 THEN [slot |-> found, erase |-> FALSE]
        ELSE [slot |-> next_scan(current)[5], erase |-> TRUE]

\* next_header(dev, headers, current): the slot to write, as an index of
\* headers, and whether its sector is erased first.
next_header(mem, headers, current) ==
    LET found == first_empty(mem, headers, next_scan(current), 1)
    IN  IF found # 0 THEN [slot |-> found, erase |-> FALSE]
        ELSE [slot |-> next_scan(current)[5], erase |-> TRUE]

Parsed(typ, msg) == [typ |-> typ, msg |-> msg]

ParseFailed == [ok |-> FALSE, items |-> << >>]

\* The category of a framed message of the device.
category(msg) ==
    IF msg[3] = LMK05318B_WRITE THEN "LMK"
    ELSE IF msg[3] \in {GET_SET_BAUD, SERIAL_SYNC} THEN "UBX"
    ELSE IF msg[3] = GET_SET_NAME THEN "NAME"
    ELSE "UNKNOWN"

\* The loop of parse_config over data[done : end]: the messages it yields,
\* or the failure of one of its assertions.
RECURSIVE parse_from(_, _, _, _)
parse_from(data, done, end, items) ==
    IF done >= end THEN [ok |-> TRUE, items |-> items]
    ELSE IF data[done + 1] = 181
    THEN IF end - done < 8 THEN ParseFailed
         ELSE IF data[done + 2] # 98 THEN ParseFailed
         ELSE IF data[done + 5] + data[done + 6] * 256 + 8 > end - done THEN ParseFailed
         ELSE IF checksum(SubSeq(data, done + 3, done + data[done + 5] + data[done + 6] * 256 + 6)) # SubSeq(data, done + data[done + 5] + data[done + 6] * 256 + 7, done + data[done + 5] + data[done + 6] * 256 + 8) THEN ParseFailed
         ELSE parse_from(data, done + data[done + 5] + data[done + 6] * 256 + 8, end, Append(items, Parsed("UBX", SubSeq(data, done + 1, done + data[done + 5] + data[done + 6] * 256 + 8))))
    ELSE IF data[done + 1] # 206 THEN ParseFailed
    ELSE IF end - done < 8 THEN ParseFailed
    ELSE IF data[done + 2] # 147 THEN ParseFailed
    ELSE IF 4 + data[done + 4] + 2 > end - done THEN ParseFailed
    ELSE IF crc16(SubSeq(data, done + 1, done + data[done + 4] + 6)) # << 0, 0 >> THEN ParseFailed
    ELSE parse_from(data, done + data[done + 4] + 6, end, Append(items, Parsed(category(SubSeq(data, done + 1, done + data[done + 4] + 6)), SubSeq(data, done + 1, done + data[done + 4] + 6))))

\* parse_config(dev, h) for a valid h
parse_config(mem, h) == parse_from(peek(mem, h.address, word_int(h.length)), 16, word_int(h.length) - 4, << >>)

\* The messages of one category, concatenated.
of_category(items, typ) == concat([i \in 1..Len(SelectSeq(items, LAMBDA p : p.typ = typ)) |-> SelectSeq(items, LAMBDA p : p.typ = typ)[i].msg])

\* struct.pack('<IIII', MAGIC, VERSION, generation, length)
pack_header(generation, length) == pack_le(MAGIC) \o pack_le(VERSION) \o pack_le(generation) \o pack_le(length)

next_generation(active) == IF active = NoConfig THEN word_of(1) ELSE word_inc(active.generation)

\* config[12:16] = struct.pack('<I', len(config) + 4)
\* config += struct.pack('>I', crc32.crc32(config))
sealed(config) ==
    LET patched == SubSeq(config, 1, 12) \o pack_le(word_of(Len(config) + 4)) \o SubSeq(config, 17, Len(config))
    IN  patched \o crc32(patched)

\* A blob left without its padding.
padded_not(config) == config

\* config += b'\xff' * (31 & -len(config))
padded(config) == config \o rep(255, (32 - (Len(config) % 32)) % 32)

\* compare_config(dev, h, new)
compare_config(mem, h, new) ==
    IF \/ unpack_le(SubSeq(new, 1, 4)) # h.magic
       \/ unpack_le(SubSeq(new, 5, 8)) # h.version
       \/ unpack_le(SubSeq(new, 13, 16)) # h.length
    THEN FALSE
    ELSE IF crc32(SubSeq(new, 17, Len(new) - 4)) # device_crc(mem, h.address + 16, word_int(h.length) - 20)
    THEN FALSE
    ELSE SubSeq(peek(mem, h.address, word_int(h.length)), 17, word_int(h.length) - 4) = SubSeq(new, 17, Len(new) - 4)

\* The messages add_live_lmk05318b appends for the chip lmk = [addresses,
\* device].
live_lmk05318b(lmk) == concat([i \in 1..Len(add_live_lmk05318b(lmk.addresses, lmk.device).writes) |-> lmk05318b_write(add_live_lmk05318b(lmk.addresses, lmk.device).writes[i][1], add_live_lmk05318b(lmk.addresses, lmk.device).writes[i][2])])

\* The name message of make_config: the name is saved when it is set and is
\* not the serial number.
live_name(unit) == IF unit.name # << >> /\ unit.name # unit.serial THEN set_name(unit.name) ELSE << >>

\* The body of make_config up to the name, from the messages of the active
\* blob where there is one.
config_body(unit, items, has_active, save_ubx, save_lmk) ==
    (IF save_lmk THEN live_lmk05318b(unit.lmk) ELSE IF has_active THEN of_category(items, "LMK") ELSE << >>)
    \o (IF save_ubx THEN add_live_baud_rate(unit.ubx) \o add_live_ublox(unit.ubx) ELSE IF has_active THEN of_category(items, "UBX") ELSE << >>)
    \o (IF has_active THEN of_category(items, "UNKNOWN") ELSE << >>)

\* The end of make_config from the candidate with its CRC.
made(mem, active, force, config) ==
    IF active # NoConfig /\ ~ force /\ compare_config(mem, active, config)
    THEN [out |-> "None", config |-> << >>]
    ELSE [out |-> "config", config |-> padded(config)]

\* make_config(device, headers, active, save_ubx, save_lmk, force)
make_config(unit, mem, active, save_ubx, save_lmk, force) ==
    IF active # NoConfig /\ ~ parse_config(mem, active).ok
    THEN [out |-> "AssertionError", config |-> << >>]
    ELSE made(mem, active, force,
              sealed(pack_header(next_generation(active), word_of(0))
                     \o config_body(unit, IF active = NoConfig THEN << >> ELSE parse_config(mem, active).items, active # NoConfig, save_ubx, save_lmk)
                     \o live_name(unit)))

\* poke(dev, address, data): one POKE for every chunk of 32 bytes.
RECURSIVE poke_commands(_, _, _)
poke_commands(address, size, base) == IF base >= size THEN << >> ELSE << [op |-> "poke", address |-> address + base, size |-> Min2(32, size - base)] >> \o poke_commands(address, size, base + 32)

\* write_config(dev, headers, active, config): the flash it leaves and the
\* commands it sends.
write_config(mem, headers, active, config) ==
    LET where == next_header(mem, headers, active)
        address == ADDRESSES[where.slot]
    IN  [flash |-> poke(IF where.erase THEN flash_erase(mem, address) ELSE mem, address, config),
         issued |-> (IF where.erase THEN << [op |-> "flash_erase", address |-> address, size |-> 0] >> ELSE << >>) \o poke_commands(address, Len(config), 0)]

\* The blob do_clear writes.
clear_config(active) == padded(sealed(pack_header(next_generation(active), word_of(0))))

\* save_config(device, save_ubx, save_lmk) and do_clear(device) on the flash
\* mem: how the call ends, the blob it made, the flash it leaves and the
\* commands it sent to the flash.
save_outcome(mem, active, made_config, dry_run) ==
    IF made_config.out = "config" /\ ~ dry_run
    THEN [out |-> "True", config |-> made_config.config, active |-> active] @@ write_config(mem, get_headers(mem), active, made_config.config)
    ELSE [out |-> IF made_config.out = "None" THEN "False" ELSE IF made_config.out = "config" THEN "True" ELSE made_config.out,
          config |-> made_config.config, active |-> active, flash |-> mem, issued |-> << >>]

save_config_from(unit, mem, active, save_ubx, save_lmk, dry_run) == save_outcome(mem, active, make_config(unit, mem, active, save_ubx, save_lmk, FALSE), dry_run)

save_config(unit, mem, save_ubx, save_lmk, dry_run) == save_config_from(unit, mem, active_header(mem, get_headers(mem)), save_ubx, save_lmk, dry_run)

do_clear_from(mem, active) == save_outcome(mem, active, [out |-> "config", config |-> clear_config(active)], FALSE)

do_clear(mem) == [do_clear_from(mem, active_header(mem, get_headers(mem))) EXCEPT !.out = "None"]

\* ------------------------------------------------------------------------
\* freq_make_data and report_freq (lmk05318b_util.py)
\* ------------------------------------------------------------------------

\* The registers freq_make_data and report_freq use.  The table of the
\* source is read from a file of the chip's register map; the model has the
\* registers with the widths of the chip, the widths that the planner's
\* bounds stand for following those bounds, in addresses of its own.  No
\* field has bit 7 of address 12, which is RESET_SW.
REGISTERS ==
    [ PLL2_P1 |-> Register(12, 1, 0, 3), PLL2_P2 |-> Register(12, 1, 4, 3),
      CH0_1_PD |-> Register(1, 1, 7, 1), CH0_1_MUX |-> Register(1, 1, 0, 2),
      CH2_3_PD |-> Register(2, 1, 7, 1), CH2_3_MUX |-> Register(2, 1, 0, 2),
      CH4_PD |-> Register(3, 1, 7, 1), CH4_MUX |-> Register(3, 1, 0, 2),
      CH5_PD |-> Register(4, 1, 7, 1), CH5_MUX |-> Register(4, 1, 0, 2),
      CH6_PD |-> Register(5, 1, 7, 1), CH6_MUX |-> Register(5, 1, 0, 2),
      CH7_PD |-> Register(6, 1, 7, 1), CH7_MUX |-> Register(6, 1, 0, 2),
      OUT0_1_DIV |-> Register(7, 1, 0, 8), OUT2_3_DIV |-> Register(8, 1, 0, 8),
      OUT4_DIV |-> Register(9, 1, 0, 8), OUT5_DIV |-> Register(10, 1, 0, 8),
      OUT6_DIV |-> Register(11, 1, 0, 8), OUT7_DIV |-> Register(0, 1, 0, 8),
      OUT7_STG2_DIV |-> Register(13, 3, 0, STAGE2_BITS),
      DPLL_PRIREF_RDIV |-> Register(16, 2, 0, 16),
      DPLL_REF_FB_PRE_DIV |-> Register(18, 1, 0, 4),
      DPLL_REF_FB_DIV |-> Register(19, 2, 0, 12),
      DPLL_REF_NUM |-> Register(21, 2, 0, FB_DEN_BITS),
      DPLL_REF_DEN |-> Register(23, 2, 0, FB_DEN_BITS),
      LOL_PLL2_MASK |-> Register(25, 1, 0, 1),
      MUTE_APLL2_LOCK |-> Register(25, 1, 1, 1),
      PLL2_PDN |-> Register(25, 1, 2, 1),
      APLL2_DEN_MODE |-> Register(25, 1, 3, 1),
      PLL2_RCLK_SEL |-> Register(25, 1, 4, 1),
      PLL2_RDIV_PRE |-> Register(25, 1, 5, 2),
      PLL2_NDIV |-> Register(26, 2, 0, 9),
      PLL2_NUM |-> Register(28, 2, 0, MULT_DEN_BITS),
      PLL2_DEN |-> Register(30, 2, 0, MULT_DEN_BITS),
      PLL2_RDIV_SEC |-> Register(32, 1, 0, 3),
      PLL2_DISABLE_3RD4TH |-> Register(32, 1, 4, 4),
      PLL2_CP |-> Register(33, 1, 0, 4), PLL2_LF_R2 |-> Register(33, 1, 4, 3),
      PLL2_LF_C1 |-> Register(34, 1, 0, 3), PLL2_LF_R3 |-> Register(34, 1, 4, 3),
      PLL2_LF_R4 |-> Register(35, 1, 0, 3), PLL2_LF_C4 |-> Register(35, 1, 4, 3),
      PLL2_LF_C3 |-> Register(36, 1, 0, 3) ]

\* The plan freq_make_data is given: a DPLLPlan, the PLL2 frequency and
\* its target, the multiplier, and the divider triples.
Plan(dpll, pll2_target, multiplier, dividers) ==
    [dpll |-> dpll, pll2 |-> FMul(FDivInt(dpll.baw, FPD_DIVIDE), multiplier),
     pll2_target |-> pll2_target, multiplier |-> multiplier, dividers |-> dividers]

chtag == << "0_1", "2_3", "4", "5", "6", "7" >>

\* The loop of freq_make_data that finds the two post-dividers of a plan,
\* from output i on: << postdiv1, postdiv2, assertion held >>.
RECURSIVE freq_make_data_postdivs(_, _, _, _)
freq_make_data_postdivs(dividers, i, postdiv1, postdiv2) ==
    IF i > Len(dividers) THEN << postdiv1, postdiv2, TRUE >>
    ELSE IF dividers[i][1] = 0
    THEN freq_make_data_postdivs(dividers, i + 1, postdiv1, postdiv2)
    ELSE IF postdiv1 = 0
    THEN freq_make_data_postdivs(dividers, i + 1, dividers[i][1], dividers[i][1])
    ELSE IF dividers[i][1] # postdiv1 /\ postdiv2 = postdiv1
    THEN freq_make_data_postdivs(dividers, i + 1, postdiv1, dividers[i][1])
    ELSE IF dividers[i][1] = postdiv1 \/ dividers[i][1] = postdiv2
    THEN freq_make_data_postdivs(dividers, i + 1, postdiv1, postdiv2)
    ELSE << postdiv1, postdiv2, FALSE >>

\* `if postdiv == 0: postdiv = 2`
live_postdiv(postdiv) == IF postdiv = 0 THEN 2 ELSE postdiv

\* The assertions of freq_make_data on output i (from 0) hold.
channel_accepted(dividers, i, postdiv1, postdiv2) ==
    \/ dividers[i + 1][2] = 0
    \/ /\ dividers[i + 1][1] \in {0, postdiv1, postdiv2}
       /\ dividers[i + 1][2] >= 1 /\ dividers[i + 1][2] <= 256
       /\ IF i = 5
          THEN dividers[i + 1][3] >= 1 /\ dividers[i + 1][3] <= STAGE2_MAX
          ELSE dividers[i + 1][3] = 1

\* The value of CH{t}_MUX for a pre-divider.
channel_mux(pd, postdiv1, postdiv2) ==
    IF pd = 0 THEN 0 ELSE IF pd = postdiv1 THEN 2 ELSE 3

\* The loop body with the second post-divider taken for the first.
channel_inserts_first(dividers, i, postdiv1, postdiv2) ==
    IF dividers[i + 1][2] = 0
    THEN << << "CH" \o chtag[i + 1] \o "_PD", 1 >> >>
    ELSE << << "CH" \o chtag[i + 1] \o "_PD", 0 >>,
            << "CH" \o chtag[i + 1] \o "_MUX", IF dividers[i + 1][1] = 0 THEN 0 ELSE 2 >>,
            << "OUT" \o chtag[i + 1] \o "_DIV", dividers[i + 1][2] - 1 >> >>
         \o (IF i = 5 THEN << << "OUT7_STG2_DIV", dividers[i + 1][3] - 1 >> >>
             ELSE << >>)

\* The inserts of the loop over plan.dividers for output i (from 0).
channel_inserts(dividers, i, postdiv1, postdiv2) ==
    IF dividers[i + 1][2] = 0
    THEN << << "CH" \o chtag[i + 1] \o "_PD", 1 >> >>
    ELSE << << "CH" \o chtag[i + 1] \o "_PD", 0 >>,
            << "CH" \o chtag[i + 1] \o "_MUX",
               channel_mux(dividers[i + 1][1], postdiv1, postdiv2) >>,
            << "OUT" \o chtag[i + 1] \o "_DIV", dividers[i + 1][2] - 1 >> >>
         \o (IF i = 5 THEN << << "OUT7_STG2_DIV", dividers[i + 1][3] - 1 >> >>
             ELSE << >>)

RECURSIVE channels_inserts(_, _, _, _)
channels_inserts(dividers, i, postdiv1, postdiv2) ==
    IF i >= Len(dividers) THEN << >>
    ELSE channel_inserts(dividers, i, postdiv1, postdiv2)
         \o channels_inserts(dividers, i + 1, postdiv1, postdiv2)

\* The inserts for the DPLL.
dpll_inserts(fb_prediv, fb_div, mult) ==
    << << "DPLL_REF_FB_PRE_DIV", fb_prediv - 2 >>,
       << "DPLL_REF_FB_DIV", fb_div[1] \div fb_div[2] >>,
       << "DPLL_REF_NUM", (fb_div[1] % fb_div[2]) * mult >>,
       << "DPLL_REF_DEN", fb_div[2] * mult >> >>

\* The inserts for PLL2.
pll2_inserts(plan) ==
    IF IsZero(plan.pll2_target)
    THEN << << "LOL_PLL2_MASK", 1 >>, << "MUTE_APLL2_LOCK", 0 >>, << "PLL2_PDN", 1 >> >>
    ELSE << << "PLL2_PDN", 0 >>, << "LOL_PLL2_MASK", 0 >>, << "MUTE_APLL2_LOCK", 1 >> >>
         \o (IF fixed_denom(plan)
             THEN << << "APLL2_DEN_MODE", 0 >>,
                     << "PLL2_NDIV", plan.multiplier[1] \div plan.multiplier[2] >>,
                     << "PLL2_NUM", ((plan.multiplier[1] % plan.multiplier[2])
                                     * MULT_DEN_MAX) \div plan.multiplier[2] >>,
                     << "PLL2_DEN", 0 >> >>
             ELSE << << "APLL2_DEN_MODE", 1 >>,
                     << "PLL2_NDIV", plan.multiplier[1] \div plan.multiplier[2] >>,
                     << "PLL2_NUM", plan.multiplier[1] % plan.multiplier[2] >>,
                     << "PLL2_DEN", plan.multiplier[2] >> >>)
         \o << << "PLL2_RCLK_SEL", 0 >>, << "PLL2_RDIV_PRE", 0 >>,
               << "PLL2_RDIV_SEC", 5 >>, << "PLL2_DISABLE_3RD4TH", 15 >>,
               << "PLL2_CP", 1 >>, << "PLL2_LF_R2", 2 >>, << "PLL2_LF_C1", 0 >>,
               << "PLL2_LF_R3", 1 >>, << "PLL2_LF_R4", 1 >>, << "PLL2_LF_C4", 7 >>,
               << "PLL2_LF_C3", 7 >> >>

\* data.insert(key, value) for each of a list, from the k-th on.
RECURSIVE insert_all(_, _, _)
insert_all(masked, key_values, k) ==
    IF k > Len(key_values) THEN masked
    ELSE insert_all(MaskedBytes_insert(masked, REGISTERS[key_values[k][1]],
                                       key_values[k][2]),
                    key_values, k + 1)

\* freq_make_data with the post-dividers found.
freq_make_data_with(plan, postdiv1, postdiv2) ==
    IF \E i \in 0..(Len(plan.dividers) - 1) :
          ~channel_accepted(plan.dividers, i, postdiv1, postdiv2)
    THEN [out |-> "AssertionError", data |-> MaskedBytes]
    ELSE [out |-> "returned",
          data |-> insert_all(MaskedBytes,
              << << "PLL2_P1", postdiv1 - 1 >>, << "PLL2_P2", postdiv2 - 1 >> >>
              \o channels_inserts(plan.dividers, 0, postdiv1, postdiv2)
              \o dpll_inserts(plan.dpll.fb_prediv, plan.dpll.fb_div,
                              (FB_DEN_LIMIT - 1) \div plan.dpll.fb_div[2])
              \o pll2_inserts(plan), 1)]

freq_make_data_found(plan, found) ==
    IF ~found[3] THEN [out |-> "AssertionError", data |-> MaskedBytes]
    ELSE freq_make_data_with(plan, live_postdiv(found[1]), live_postdiv(found[2]))

\* freq_make_data(plan): [out, data]
freq_make_data(plan) ==
    freq_make_data_found(plan, freq_make_data_postdivs(plan.dividers, 1, 0, 0))

\* data.NAME of report_freq
field(data, name) == Register_extract(REGISTERS[name], data)

\* The denominator of the PLL2 fraction that report_freq uses.
report_pll2_den(data) ==
    IF field(data, "APLL2_DEN_MODE") = 0 THEN MULT_DEN_MAX ELSE field(data, "PLL2_DEN")

\* baw_freq of report_freq, reference being what it takes as the reference
\* (REF_FREQ in the source).
report_baw(data, reference) ==
    FMul(FMulInt(FDivInt(reference, field(data, "DPLL_PRIREF_RDIV")),
                 2 * (field(data, "DPLL_REF_FB_PRE_DIV") + 2)),
         FAdd(FInt(field(data, "DPLL_REF_FB_DIV")),
              Fraction(field(data, "DPLL_REF_NUM"), field(data, "DPLL_REF_DEN"))))

\* pll2_freq of report_freq
report_pll2(data, baw_freq) ==
    FMul(FDivInt(FDivInt(baw_freq, field(data, "PLL2_RDIV_PRE") + 3),
                 field(data, "PLL2_RDIV_SEC") + 1),
         FAdd(FInt(field(data, "PLL2_NDIV")),
              Fraction(field(data, "PLL2_NUM"), report_pll2_den(data))))

\* The source of a channel by its mux.
report_muxed(data, mux, baw_freq, pll2_freq) ==
    IF mux = 2 THEN FDivInt(pll2_freq, field(data, "PLL2_P1") + 1)
    ELSE IF mux = 3 THEN FDivInt(pll2_freq, field(data, "PLL2_P2") + 1)
    ELSE baw_freq

\* The loop body of report_freq for the channel with tag ch.
report_channel(data, ch, mux, div, s2div, baw_freq, pll2_freq) ==
    [mux |-> mux, div |-> div, s2div |-> s2div,
     freq |-> FDivInt(FDivInt(report_muxed(data, mux, baw_freq, pll2_freq), div), s2div),
     pd |-> field(data, "CH" \o ch \o "_PD")]

report_channels(data, baw_freq, pll2_freq) ==
    [ i \in 1..Len(chtag) |->
      report_channel(data, chtag[i], field(data, "CH" \o chtag[i] \o "_MUX"),
                     field(data, "OUT" \o chtag[i] \o "_DIV") + 1,
                     IF chtag[i] = "7" THEN field(data, "OUT7_STG2_DIV") + 1 ELSE 1,
                     baw_freq, pll2_freq) ]

NoReport == [out |-> "", baw |-> ZERO, pll2 |-> ZERO, channels |-> << >>]

report_freq_with(data, baw_freq) ==
    [out |-> "reported", baw |-> baw_freq, pll2 |-> report_pll2(data, baw_freq),
     channels |-> report_channels(data, baw_freq, report_pll2(data, baw_freq))]

\* report_freq on a device with the registers `data`: what it reports, or
\* how it fails.
report_freq(data, reference) ==
    IF field(data, "DPLL_PRIREF_RDIV") = 0
    THEN [NoReport EXCEPT !.out = "AssertionError"]
    ELSE IF field(data, "DPLL_REF_DEN") = 0 \/ report_pll2_den(data) = 0
    THEN [NoReport EXCEPT !.out = "ZeroDivisionError"]
    ELSE report_freq_with(data, report_baw(data, reference))

\* ------------------------------------------------------------------------
\* do_freq (lmk05318b_util.py), from data = freq_make_data(plan) on
\* ------------------------------------------------------------------------

\* lmk05318b_status(dev)
lmk05318b_status == frame(LMK05318B_STATUS, << >>)

\* A do_freq that does not set the software reset before it writes.
do_freq_held_not(data) == data

\* data.RESET_SW = 1
do_freq_held(data) == MaskedBytes_insert(data, RESET_SW, 1)

\* data.RESET_SW = 0, on the data masked_write left
do_freq_released(data) == MaskedBytes_insert(data, RESET_SW, 0)

\* message.lmk05318b_write(dev.get_usb(), 12, data.data[12])
do_freq_release(data) == << 12, << do_freq_released(data).data[13] >> >>

\* ------------------------------------------------------------------------
\* State of a planning call
\* ------------------------------------------------------------------------

VARIABLES
    entry,      \* the entry point that was called
    target,     \* its target: [freqs, pll2_base] and, for the DPLL, also
                \* [pll1_base, reference, pll1_pfd]
    pc,         \* the position of the call
    pll1,       \* plan(): the frequencies routed to PLL1
    pll2,       \* plan(): those routed to PLL2; pll2_plan(): its freqs
    pll2_lcm,   \* the frequency PLL2 must be a multiple of
    mult,       \* pll2_plan(): the loop variable
    best,       \* pll2_plan(): the best plan so far
    result,     \* [out, plan]: how the call ended and what it returned
    checked,    \* the outcome of validate() on the returned plan
    default,    \* dpll_plan(): the plan for the nominal BAW frequency
    counts,     \* dpll_plan(): the candidate BAW frequencies and their counts
    yielded,    \* sym_range(): the values the generator has yielded so far
    masked,     \* the MaskedBytes being built: [data, mask]
    device,     \* the registers of the device
    reg,        \* do_set(): the register of the last insert
    value,      \* do_set(): the value of the last insert
    inserted,   \* do_set(): the number of inserts so far
    writes,     \* the register writes sent or recorded: << address, bytes >>
    flash,      \* the bytes of the sixteen configuration slots
    unit,       \* the live device: [lmk, ubx, name, serial]
    outcome,    \* the last call on the flash: [out, config, active, issued]
    previous,   \* the call before it: [entry, target, out]
    wire,       \* the bytes of a message as sent or as they arrive
    received    \* what deframe() made of the bytes

call_vars == << entry, target, pc, result, checked >>

pll_vars == << pll1, pll2, pll2_lcm, mult, best >>

dpll_vars == << default, counts, yielded >>

planner_vars == << call_vars, pll_vars, dpll_vars >>

image_vars == << masked, device, reg, value, inserted, writes >>

config_vars == << flash, unit, outcome, previous >>

frame_vars == << wire, received >>

vars == << planner_vars, image_vars, config_vars, frame_vars >>

\* What a call of plan() or pll2_plan() leaves alone, what a call of
\* dpll_plan() leaves alone, and what the work on a register image does.
beside_pll == << dpll_vars, image_vars, config_vars, frame_vars >>

beside_dpll == << pll_vars, image_vars, config_vars, frame_vars >>

beside_image == << target, result, checked, pll_vars, dpll_vars, config_vars, frame_vars >>

\* The variables of the other calls while none of them runs.
PllIdle ==
    /\ pll1 = << >> /\ pll2 = << >> /\ pll2_lcm = << >> /\ mult = 0
    /\ best = [ok |-> FALSE, raised |-> "None"]

DpllIdle == default = [ok |-> FALSE, raised |-> "None"] /\ counts = << >> /\ yielded = << >>

NoRegister == Register(0, 0, 0, 0)

ImageIdle ==
    /\ masked = << >> /\ device = << >>
    /\ reg = NoRegister /\ value = 0 /\ inserted = 0
    /\ writes = << >>

NoCall == [entry |-> "", target |-> << >>, out |-> ""]

NoOutcome == [out |-> "", config |-> << >>, active |-> NoConfig, issued |-> << >>]

NoMessage == [out |-> ""]

FrameIdle == wire = << >> /\ received = NoMessage

ConfigIdle == flash = << >> /\ unit = << >> /\ outcome = NoOutcome /\ previous = NoCall /\ FrameIdle

\* lmk05318b_plan.plan runs the copy of the planner in its own file,
\* plan_pll2.pll2_plan the one of plan_pll2.py.
variant == IF entry = "plan" THEN "lmk" ELSE "pll2"

NoResult == [out |-> "", plan |-> NoPlan]

Z6 == << ZERO, ZERO, ZERO, ZERO, ZERO, ZERO >>

\* The frequency list with f0 on output 0 and f5 on the big-divide output.
Freqs(f0, f5) == << f0, ZERO, ZERO, ZERO, ZERO, f5 >>

\* ------------------------------------------------------------------------
\* plan(target)
\* ------------------------------------------------------------------------

\* The targets plan() is called with: frequencies for output 0 and for the
\* big-divide output, without and with a pll2_base.
PlanF0 == { ZERO, << 100, 1 >>, << 77, 1 >>, << 10, 3 >>, << 1, 1 >>, << 2500, 1 >> }

PlanF5 == { ZERO, << 1, 10 >>, << 4001, 8 >>, << 7, 2 >>, << 25, 1 >>, << 1, 50 >> }

PlanLowF5 == { << 1, 20480 >>, << 3, 64000 >> }

PlanBases == { << 1, 20 >>, << 1, 100 >>, << 625, 1 >> }

PlanTargets ==
    { [freqs |-> Freqs(f0, f5), pll2_base |-> NoFreq] : f0 \in PlanF0, f5 \in PlanF5 }
    \cup { [freqs |-> Freqs(ZERO, f5), pll2_base |-> NoFreq] : f5 \in PlanLowF5 }
    \cup { [freqs |-> Freqs(f0, f5), pll2_base |-> b] :
           f0 \in { ZERO, << 100, 1 >> }, f5 \in { ZERO, << 25, 1 >>, << 1, 10 >> },
           b \in PlanBases }

PlanInit ==
    /\ entry = "plan"
    /\ target \in PlanTargets
    /\ pc = "route"
    /\ pll1 = << >>
    /\ pll2 = << >>
    /\ pll2_lcm = NoFreq
    /\ mult = 0
    /\ best = NoPlan
    /\ result = NoResult
    /\ checked = ""
    /\ DpllIdle
    /\ ConfigIdle
    /\ ImageIdle

\* The first loop of plan(): route every output, or fail on the first that
\* neither PLL can make.
PlanRoute ==
    /\ entry = "plan" /\ pc = "route"
    /\ IF \E i \in 1..Len(target.freqs) :
             plan_route(variant, i - 1, target.freqs[i]) = "fail"
       THEN /\ result' = [out |-> fail(variant), plan |-> NoPlan]
            /\ pc' = "done"
            /\ UNCHANGED << pll1, pll2 >>
       ELSE /\ pll1' = plan_pll1(variant, target.freqs)
            /\ pll2' = plan_pll2(variant, target.freqs)
            /\ pc' = "lcm"
            /\ UNCHANGED result
    /\ UNCHANGED << entry, target, pll2_lcm, mult, best, checked >>
    /\ UNCHANGED beside_pll

\* `assert pll2_lcm is None or pll2_lcm >= SMALL` and the loop of fract_lcm.
PlanLcm ==
    /\ entry = "plan" /\ pc = "lcm"
    /\ IF \/ target.pll2_base # NoFreq /\ FLt(target.pll2_base, SMALL)
          \/ ~plan_lcm(pll2, 1, << target.pll2_base, TRUE >>)[2]
       THEN /\ result' = [out |-> "AssertionError", plan |-> NoPlan]
            /\ pc' = "done"
            /\ UNCHANGED pll2_lcm
       ELSE /\ pll2_lcm' = plan_lcm(pll2, 1, << target.pll2_base, TRUE >>)[1]
            /\ pc' = "search"
            /\ UNCHANGED result
    /\ UNCHANGED << entry, target, pll1, pll2, mult, best, checked >>
    /\ UNCHANGED beside_pll

\* The if / elif chain of plan().
PlanSearch ==
    /\ entry = "plan" /\ pc = "search"
    /\ result' = plan_search(variant, target, pll2, pll2_lcm)
    /\ pc' = IF result'.out = "returned" THEN "add_pll1" ELSE "done"
    /\ UNCHANGED << entry, target, pll1, pll2, pll2_lcm, mult, best, checked >>
    /\ UNCHANGED beside_pll

\* add_pll1(target, plan, pll1); return plan
PlanAddPll1 ==
    /\ entry = "plan" /\ pc = "add_pll1"
    /\ result' = add_pll1(variant, result.plan, pll1)
    /\ pc' = "done"
    /\ UNCHANGED << entry, target, pll1, pll2, pll2_lcm, mult, best, checked >>
    /\ UNCHANGED beside_pll

\* The caller runs validate() on the plan it got.
Validate ==
    /\ entry \in {"plan", "pll2_plan"}
    /\ pc = "done" /\ result.out = "returned" /\ checked = ""
    /\ checked' = PLLPlan_validate(result.plan)
    /\ UNCHANGED << entry, target, pc, pll1, pll2, pll2_lcm, mult, best, result >>
    /\ UNCHANGED beside_pll

PlanNext == PlanRoute \/ PlanLcm \/ PlanSearch \/ PlanAddPll1 \/ Validate

SpecPlan == PlanInit /\ [][PlanNext]_vars

\* ------------------------------------------------------------------------
\* pll2_plan(target, freqs, pll2_lcm)
\* ------------------------------------------------------------------------

\* The calls of pll2_plan: a frequency list and a common multiple of it.
Pll2Calls ==
    { << Freqs(ZERO, << 1, 10 >>), << 625, 1 >> >>,
      << Freqs(ZERO, << 1, 10 >>), << 125, 1 >> >>,
      << Freqs(<< 100, 1 >>, << 1, 10 >>), << 100, 1 >> >>,
      << Freqs(<< 77, 1 >>, ZERO), << 77, 1 >> >>,
      << Freqs(<< 77, 2 >>, << 7, 2 >>), << 77, 2 >> >>,
      << Freqs(<< 100, 1 >>, << 125, 1 >>), << 500, 1 >> >>,
      << Freqs(<< 100, 1 >>, << 33, 1 >>), << 3300, 1 >> >>,
      << Freqs(ZERO, << 4001, 8 >>), << 4001, 8 >> >>,
      << Freqs(<< 2000, 1 >>, ZERO), << 2000, 1 >> >>,
      << Freqs(<< 1500, 1 >>, ZERO), << 1500, 1 >> >>,
      << Freqs(ZERO, << 13, 2 >>), << 13, 2 >> >>,
      << Freqs(ZERO, << 5875, 10794 >>), << 5875, 1 >> >>,
      << Freqs(<< 1000, 1 >>, << 1200, 7 >>), << 6000, 1 >> >>,
      << Z6, << 100, 1 >> >> }

\* The entry points under which pll2_plan runs: called by itself, from
\* plan(), or from pll2_plan_low.
Pll2Callers == {"pll2_plan", "plan", "pll2_plan_low"}

Pll2Init ==
    /\ entry = "pll2_plan"
    /\ \E c \in Pll2Calls :
          /\ target = [freqs |-> c[1], pll2_base |-> NoFreq]
          /\ pll2 = c[1]
          /\ pll2_lcm = c[2]
    /\ pc = "enter"
    /\ pll1 = << >>
    /\ mult = 0
    /\ best = NoPlan
    /\ result = NoResult
    /\ checked = ""
    /\ DpllIdle
    /\ ConfigIdle
    /\ ImageIdle

\* The tests of pll2_plan before its loop.
Pll2Enter ==
    /\ entry \in Pll2Callers /\ pc = "enter"
    /\ IF pll2_plan_entry(variant, pll2, pll2_lcm) # ""
       THEN /\ result' = [out |-> pll2_plan_entry(variant, pll2, pll2_lcm),
                          plan |-> NoPlan]
            /\ pc' = "done"
            /\ UNCHANGED mult
       ELSE /\ mult' = pll2_start(pll2_lcm)
            /\ pc' = "loop"
            /\ UNCHANGED result
    /\ UNCHANGED << entry, target, pll1, pll2, pll2_lcm, best, checked >>
    /\ UNCHANGED beside_pll

\* One pass of the loop over the multiples of pll2_lcm.
Pll2Step ==
    /\ entry \in Pll2Callers /\ pc = "loop"
    /\ mult <= pll2_end(pll2_lcm)
    /\ ~IsRaised(best)
    /\ best' = pll2_plan_iter(variant, pll2, pll2_lcm, mult, best)
    /\ mult' = mult + 1
    /\ UNCHANGED << entry, target, pc, pll1, pll2, pll2_lcm, result, checked >>
    /\ UNCHANGED beside_pll

\* The end of the loop: return the best plan or fail.
Pll2Exit ==
    /\ entry \in Pll2Callers /\ pc = "loop"
    /\ mult > pll2_end(pll2_lcm) \/ IsRaised(best)
    /\ result' = pll2_plan_exit(variant, best)
    /\ pc' = IF entry = "plan" /\ result'.out = "returned" THEN "add_pll1" ELSE "done"
    /\ UNCHANGED << entry, target, pll1, pll2, pll2_lcm, mult, best, checked >>
    /\ UNCHANGED beside_pll

Pll2Next == Pll2Enter \/ Pll2Step \/ Pll2Exit \/ Validate

SpecPll2 == Pll2Init /\ [][Pll2Next]_vars

\* ------------------------------------------------------------------------
\* plan(target) and pll2_plan_low(target, freq) with the search of pll2_plan
\* taken pass by pass
\* ------------------------------------------------------------------------

\* The plan the exact search of pll2_plan_low ends with: plan_pll2.py
\* searches a second time when the first search found nothing.
low_exact(v, freq, ratio, factors) ==
    IF v = "lmk" \/ ~IsNone(pll2_plan_low_exact(v, freq, TRUE, ratio, factors))
    THEN pll2_plan_low_exact(v, freq, TRUE, ratio, factors)
    ELSE pll2_plan_low_exact(v, freq, FALSE, ratio, factors)

\* pll2_plan_low(target, freq) comes to its last line, the call of
\* pll2_plan.
low_falls_back_factored(v, freq, ratio, factors) ==
    IF Len(factors) = 0 THEN FALSE
    ELSE IF v = "lmk" /\ factors[Len(factors)] >= STAGE2_MAX THEN FALSE
    ELSE IsNone(low_exact(v, freq, ratio, factors))

low_falls_back(v, freqs, freq) ==
    IF ~FLt(freq, LOW_LIMIT) \/ freq # freqs[BIG_DIVIDE + 1] THEN FALSE
    ELSE low_falls_back_factored(v, freq, FDiv(freq, PLL2_PFD),
                                 qd_factor(FDiv(freq, PLL2_PFD)[2]))

\* Frequencies of the big-divide output: one whose multiples in the range
\* of the VCO are many, some that PLL1 makes or that have few multiples, and
\* low ones, with and without an exact plan.
SearchF5 == { ZERO, << 5000, 90009 >>, << 25, 1 >>, << 7, 2 >>, << 1, 20480 >>, << 5, 1062961 >> }

SearchTargets ==
    { [freqs |-> Freqs(f0, f5), pll2_base |-> NoFreq] :
        f0 \in { ZERO, << 77, 1 >> }, f5 \in SearchF5 }
    \cup { [freqs |-> Freqs(ZERO, f5), pll2_base |-> << 1, 20 >>] : f5 \in { ZERO, << 25, 1 >> } }

SearchInit ==
    /\ \/ entry = "plan" /\ pc = "route" /\ target \in SearchTargets
       \/ /\ entry = "pll2_plan_low" /\ pc = "low"
          /\ target \in { [freqs |-> Freqs(ZERO, f5), pll2_base |-> NoFreq] :
                           f5 \in { << 1, 20480 >>, << 1, 65537 >>, << 5, 1062961 >>, << 7, 2 >> } }
    /\ pll1 = << >>
    /\ pll2 = << >>
    /\ pll2_lcm = NoFreq
    /\ mult = 0
    /\ best = NoPlan
    /\ result = NoResult
    /\ checked = ""
    /\ DpllIdle
    /\ ConfigIdle
    /\ ImageIdle

\* The if / elif chain of plan() as far as the call it makes.
PlanBranch ==
    /\ entry = "plan" /\ pc = "search"
    /\ IF pll2_lcm = NoFreq
       THEN /\ result' = [out |-> "returned", plan |-> empty_plan(Len(target.freqs))]
            /\ pc' = "add_pll1"
       ELSE IF FLt(SMALL, pll2_lcm)
       THEN /\ pc' = "enter"
            /\ UNCHANGED result
       ELSE IF IsZero(target.freqs[BIG_DIVIDE + 1])
       THEN /\ result' = [out |-> "UnboundLocalError", plan |-> NoPlan]
            /\ pc' = "done"
       ELSE IF \E i \in 1..Len(pll2) : i # BIG_DIVIDE + 1 /\ ~IsZero(pll2[i])
       THEN /\ result' = [out |-> "AssertionError", plan |-> NoPlan]
            /\ pc' = "done"
       ELSE /\ pc' = "low"
            /\ UNCHANGED result
    /\ UNCHANGED << entry, target, pll1, pll2, pll2_lcm, mult, best, checked >>
    /\ UNCHANGED beside_pll

\* pll2_plan_low(target, freq) as far as its return or its call of
\* pll2_plan with a multiple of the frequency.
Pll2PlanLow ==
    /\ entry \in {"plan", "pll2_plan_low"} /\ pc = "low"
    /\ IF low_falls_back(variant, target.freqs, target.freqs[BIG_DIVIDE + 1])
       THEN /\ pll2' = low_freqs(target.freqs[BIG_DIVIDE + 1])
            /\ pll2_lcm' = low_fallback_lcm(variant, target.freqs[BIG_DIVIDE + 1],
                                            FDiv(target.freqs[BIG_DIVIDE + 1], PLL2_PFD),
                                            qd_factor(FDiv(target.freqs[BIG_DIVIDE + 1], PLL2_PFD)[2]))
            /\ pc' = "enter"
            /\ UNCHANGED result
       ELSE /\ result' = pll2_plan_low(variant, target, target.freqs[BIG_DIVIDE + 1])
            /\ pc' = IF entry = "plan" /\ result'.out = "returned" THEN "add_pll1" ELSE "done"
            /\ UNCHANGED << pll2, pll2_lcm >>
    /\ UNCHANGED << entry, target, pll1, mult, best, checked >>
    /\ UNCHANGED beside_pll

SearchNext ==
    PlanRoute \/ PlanLcm \/ PlanBranch \/ Pll2PlanLow \/ Pll2Enter \/ Pll2Step \/ Pll2Exit
    \/ PlanAddPll1 \/ Validate

SpecSearch == SearchInit /\ [][SearchNext]_vars

\* ------------------------------------------------------------------------
\* dpll_plan(target)
\* ------------------------------------------------------------------------

\* The targets dpll_plan() is called with: a reference, frequencies for
\* output 0 and the big-divide output, and a pll1_base or a pll2_base.
DpllReferences == { << 8, 1 >>, << 10, 1 >>, << 12, 1 >> }

DpllF0 == { ZERO, << 100, 1 >>, << 20001, 80 >>, << 27501, 110 >> }

DpllF5 == { ZERO, << 25, 1 >>, << 1, 4 >>, << 7, 48 >>, << 9, 64 >>, << 24999, 100 >> }

DpllBases ==
    { << NoFreq, NoFreq >>, << << 20001, 8 >>, NoFreq >>, << << 1, 10 >>, NoFreq >>,
      << NoFreq, << 25, 1 >> >> }

\* The feedback divider of the model is FB_DEN_BITS wide, where the source
\* has 40 bits and reaches every requested BAW frequency to well within
\* 1 Hz.  The targets of the model are those whose plan is as close at the
\* width of the model: the ones planned exactly.
ExactAtWidth(tgt) ==
    LET planned == dpll_plan(tgt)
    IN  planned.out = "returned" => planned.plan.baw = planned.plan.baw_target

DpllTargets ==
    { t \in [freqs : { Freqs(f0, f5) : f0 \in DpllF0, f5 \in DpllF5 },
             pll1_base : { b[1] : b \in DpllBases },
             pll2_base : { b[2] : b \in DpllBases },
             reference : DpllReferences,
             pll1_pfd : { DEFAULT_PLL1_PFD }] :
        << t.pll1_base, t.pll2_base >> \in DpllBases /\ ExactAtWidth(t) }

DpllInit ==
    /\ entry = "dpll_plan"
    /\ target \in DpllTargets
    /\ pc = "start"
    /\ result = NoResult
    /\ checked = ""
    /\ DpllIdle
    /\ ConfigIdle
    /\ ImageIdle
    /\ PllIdle

\* `if target.pll1_base:` and its return.
DpllBase ==
    /\ entry = "dpll_plan" /\ pc = "start"
    /\ ~Falsy(target.pll1_base)
    /\ result' = dpll_plan_base(target)
    /\ pc' = "done"
    /\ UNCHANGED << entry, target, checked, default, counts, yielded >>
    /\ UNCHANGED beside_dpll

\* The default plan, and the loop over target.freqs with the re-assessment
\* of the big-divide frequency that follows it.
DpllCount ==
    /\ entry = "dpll_plan" /\ pc = "start"
    /\ Falsy(target.pll1_base)
    /\ default' = dpll_plan_default(target)
    /\ IF IsRaised(default')
       THEN /\ result' = returning(default')
            /\ pc' = "done"
            /\ UNCHANGED counts
       ELSE IF dpll_plan_counts(target, default', 0, << >>).use_default
       THEN /\ result' = returning(default')
            /\ pc' = "done"
            /\ UNCHANGED counts
       ELSE /\ counts' = dpll_plan_reassess(target, big_divide_freq(target),
                             dpll_plan_counts(target, default', 0, << >>).counts)
            /\ pc' = "choose"
            /\ UNCHANGED result
    /\ UNCHANGED << entry, target, checked, yielded >>
    /\ UNCHANGED beside_dpll

\* len(counts) == 0: the search for the big-divide frequency, or the default.
DpllNothing ==
    /\ entry = "dpll_plan" /\ pc = "choose"
    /\ DOMAIN counts = {}
    /\ result' = dpll_plan_nothing(target, big_divide_freq(target), default)
    /\ pc' = "done"
    /\ UNCHANGED << entry, target, checked, default, counts, yielded >>
    /\ UNCHANGED beside_dpll

\* The best plan of the candidate frequencies.
DpllBest ==
    /\ entry = "dpll_plan" /\ pc = "choose"
    /\ DOMAIN counts # {}
    /\ result' = returning(dpll_plan_best(target,
                               dpll_plan_possible(counts, DOMAIN counts), 1, NoPlan))
    /\ pc' = "done"
    /\ UNCHANGED << entry, target, checked, default, counts, yielded >>
    /\ UNCHANGED beside_dpll

\* The caller runs validate() on the plan it got.
DpllValidate ==
    /\ entry = "dpll_plan" /\ pc = "done" /\ result.out = "returned" /\ checked = ""
    /\ checked' = DPLLPlan_validate(result.plan)
    /\ UNCHANGED << entry, target, pc, result, default, counts, yielded >>
    /\ UNCHANGED beside_dpll

DpllNext == DpllBase \/ DpllCount \/ DpllNothing \/ DpllBest \/ DpllValidate

SpecDpll == DpllInit /\ [][DpllNext]_vars

\* ------------------------------------------------------------------------
\* output_divider(index, ratio) of both copies of the planner
\* ------------------------------------------------------------------------

\* Ratios of one stage, primes and products above it, and ratios at and
\* above the most two stages divide by.
DividerRatios ==
    (1..12) \cup {127, 128, 255, 256, 257, 258, 259, 262, 289, 512, 514, 707, 1024, 1285, 3855, 65536}
    \cup {6 * STAGE2_MAX, 7 * STAGE2_MAX - 7, 256 * STAGE2_EVEN_MAX, 256 * STAGE2_MAX, 256 * STAGE2_MAX - 256, 257 * STAGE2_MAX, 512 * STAGE2_MAX}

DividerInit ==
    /\ entry = "output_divider"
    /\ target \in [variant : Variants, index : {0, BIG_DIVIDE}, ratio : DividerRatios]
    /\ pc = "start"
    /\ result = NoResult
    /\ checked = ""
    /\ DpllIdle
    /\ ConfigIdle
    /\ ImageIdle
    /\ PllIdle

\* The call: result.plan is the pair returned, or None.
OutputDivider ==
    /\ entry = "output_divider" /\ pc = "start"
    /\ result' = [out |-> "returned", plan |-> output_divider(target.variant, target.index, target.ratio)]
    /\ pc' = "done"
    /\ UNCHANGED << entry, target, checked, pll_vars, dpll_vars, image_vars, config_vars, frame_vars >>

\* The caller looks at what it got: a pair or None.
DividerUsed ==
    /\ entry = "output_divider" /\ pc = "done" /\ checked = ""
    /\ checked' = IF result.plan = NoPair THEN "None" ELSE "pair"
    /\ UNCHANGED << entry, target, pc, result, pll_vars, dpll_vars, image_vars, config_vars, frame_vars >>

DividerNext == OutputDivider \/ DividerUsed

SpecDivider == DividerInit /\ [][DividerNext]_vars

\* ------------------------------------------------------------------------
\* sym_range(f, low, high, limit): a loop takes the values of the generator
\* one by one
\* ------------------------------------------------------------------------

SymSteps == { << 1, 1 >>, << 1, 2 >>, << 3, 2 >>, << 2, 3 >>, << 7, 3 >> }

\* [low, high]: of integer and of fractional ends, from zero, of one point,
\* and one that is empty.
SymRanges ==
    { << << 1, 1 >>, << 6, 1 >> >>, << << 0, 1 >>, << 4, 1 >> >>, << << 5, 2 >>, << 19, 2 >> >>,
      << << 10, 3 >>, << 12, 1 >> >>, << << 7, 1 >>, << 7, 1 >> >>, << << 9, 2 >>, << 4, 1 >> >> }

SymLimits == { 0, 3, 8, 100 }

SymInit ==
    /\ entry = "sym_range"
    /\ \E f \in SymSteps, range \in SymRanges, limit \in SymLimits : target = [f |-> f, low |-> range[1], high |-> range[2], limit |-> limit]
    /\ pc = "start"
    /\ result = NoResult
    /\ checked = ""
    /\ DpllIdle
    /\ ConfigIdle
    /\ ImageIdle
    /\ PllIdle

beside_sym == << entry, target, result, checked, pll_vars, default, counts, image_vars, config_vars, frame_vars >>

\* The generator runs to its next yield.
SymYield ==
    /\ entry = "sym_range" /\ pc \in {"start", "yielding"}
    /\ Len(yielded) < Len(sym_range(target.f, target.low, target.high, target.limit))
    /\ yielded' = Append(yielded, sym_range(target.f, target.low, target.high, target.limit)[Len(yielded) + 1])
    /\ pc' = "yielding"
    /\ UNCHANGED beside_sym

\* The generator returns.
SymReturn ==
    /\ entry = "sym_range" /\ pc \in {"start", "yielding"}
    /\ Len(yielded) = Len(sym_range(target.f, target.low, target.high, target.limit))
    /\ pc' = "done"
    /\ UNCHANGED << yielded, beside_sym >>

SymNext == SymYield \/ SymReturn

SpecSym == SymInit /\ [][SymNext]_vars

\* ------------------------------------------------------------------------
\* factor_splitting(number, primes, maxL, maxR): a loop takes the pairs of
\* the generator one by one
\* ------------------------------------------------------------------------

SplitNumbers == { 1, 2, 12, 30, 49, 64, 210 }

SplitMaxima == { 1, 5, 12, 64, 300 }

\* The primes of a number, and the same with primes it does not have.
SplitInit ==
    /\ entry = "factor_splitting"
    /\ \E number \in SplitNumbers, maxL \in SplitMaxima, maxR \in SplitMaxima, more \in {<< >>, << 11, 13 >>} :
           target = [number |-> number, primes |-> qd_factor(number) \o more, maxL |-> maxL, maxR |-> maxR]
    /\ pc = "start"
    /\ result = NoResult
    /\ checked = ""
    /\ DpllIdle
    /\ ConfigIdle
    /\ ImageIdle
    /\ PllIdle

\* The generator runs to its next yield.
SplitYield ==
    /\ entry = "factor_splitting" /\ pc \in {"start", "yielding"}
    /\ Len(yielded) < Len(factor_splitting(target.number, target.primes, target.maxL, target.maxR))
    /\ yielded' = Append(yielded, factor_splitting(target.number, target.primes, target.maxL, target.maxR)[Len(yielded) + 1])
    /\ pc' = "yielding"
    /\ UNCHANGED beside_sym

\* The generator returns.
SplitReturn ==
    /\ entry = "factor_splitting" /\ pc \in {"start", "yielding"}
    /\ Len(yielded) = Len(factor_splitting(target.number, target.primes, target.maxL, target.maxR))
    /\ pc' = "done"
    /\ UNCHANGED << yielded, beside_sym >>

SplitNext == SplitYield \/ SplitReturn

SpecSplit == SplitInit /\ [][SplitNext]_vars

\* ------------------------------------------------------------------------
\* baw_plan_for_freq(target, freq), as dpll_plan calls it for a pll1_base
\* that is a BAW frequency itself
\* ------------------------------------------------------------------------

\* BAW frequencies across the range, of small and of larger denominators.
BawFreqs ==
    { << 2500, 1 >>, << 20001, 8 >>, << 19999, 8 >>, << 5001, 2 >>, << 4999, 2 >>,
      << 10001, 4 >>, << 9999, 4 >>, << 27501, 11 >>, << 24999, 10 >>, << 25001, 10 >>,
      << 40001, 16 >>, << 39999, 16 >>, << 32499, 13 >>, << 42498, 17 >>, << 12501, 5 >>, << 12499, 5 >>,
      << 62502, 25 >>, << 47498, 19 >> }

BawInit ==
    /\ entry = "dpll_plan"
    /\ target \in [freqs : { Freqs(ZERO, ZERO) }, pll1_base : BawFreqs, pll2_base : { NoFreq },
                    reference : DpllReferences, pll1_pfd : { DEFAULT_PLL1_PFD }]
    /\ pc = "start"
    /\ result = NoResult
    /\ checked = ""
    /\ DpllIdle
    /\ ConfigIdle
    /\ ImageIdle
    /\ PllIdle

BawNext == DpllBase \/ DpllValidate

SpecBaw == BawInit /\ [][BawNext]_vars

\* ------------------------------------------------------------------------
\* do_set(dev, key_values)
\* ------------------------------------------------------------------------

\* The registers of the model: in the addresses that are never written and
\* beside them, in one byte and over several, with the partial byte first.
Registers ==
    { Register(0, 1, 0, 8), Register(11, 2, 0, 12), Register(12, 1, 2, 3),
      Register(13, 3, 0, 20), Register(15, 1, 0, 4), Register(15, 1, 4, 4),
      Register(16, 2, 3, 10) }

\* 0b...0101 cut to width bits.
RECURSIVE Stripes(_)
Stripes(width) == IF width = 0 THEN 0 ELSE (width % 2) + 2 * Stripes(width - 1)

\* The values of the model for a register: none, all and every other bit.
Values(r) == { 0, Pow2(r.width) - 1, Stripes(r.width) }

\* The registers of the device before the call.
Devices ==
    { [ j \in 1..DATA_SIZE |-> (37 * j + 90) % BYTE ],
      [ j \in 1..DATA_SIZE |-> FULL_MASK - ((37 * j + 90) % BYTE) ] }

\* The longest list of key_values.
MaxInserts == 2

SetInit ==
    /\ entry = "do_set"
    /\ pc = "insert"
    /\ masked = MaskedBytes
    /\ device \in Devices
    /\ reg = NoRegister /\ value = 0 /\ inserted = 0
    /\ writes = << >>
    /\ target = << >>
    /\ result = NoResult
    /\ checked = ""
    /\ PllIdle
    /\ DpllIdle
    /\ ConfigIdle

\* data.insert(r, v) for the next of key_values.
Insert ==
    /\ entry = "do_set" /\ pc = "insert"
    /\ inserted < MaxInserts
    /\ \E r \in Registers : \E v \in Values(r) :
        /\ masked' = MaskedBytes_insert(masked, r, v)
        /\ reg' = r
        /\ value' = v
    /\ inserted' = inserted + 1
    /\ UNCHANGED << entry, pc, device, writes >>
    /\ UNCHANGED beside_image

\* masked_write(dev, data)
MaskedWrite ==
    /\ entry = "do_set" /\ pc = "insert"
    /\ inserted > 0
    /\ masked' = masked_write_data(device, masked)
    /\ writes' = masked_write_writes(device, masked)
    /\ device' = masked_write_device(device, masked)
    /\ pc' = "written"
    /\ UNCHANGED << entry, reg, value, inserted >>
    /\ UNCHANGED beside_image

SetNext == Insert \/ MaskedWrite

SpecSet == SetInit /\ [][SetNext]_vars

\* ------------------------------------------------------------------------
\* add_live_lmk05318b(dev, b), recording
\* ------------------------------------------------------------------------

LiveInit ==
    /\ entry = "add_live_lmk05318b"
    /\ pc = "live"
    /\ target \in { [addresses |-> t] : t \in AddressTables }
    /\ device \in Devices
    /\ masked = << >>
    /\ reg = NoRegister /\ value = 0 /\ inserted = 0
    /\ writes = << >>
    /\ result = NoResult
    /\ checked = ""
    /\ PllIdle
    /\ DpllIdle
    /\ ConfigIdle

AddLive ==
    /\ entry = "add_live_lmk05318b" /\ pc = "live"
    /\ masked' = add_live_lmk05318b(target.addresses, device).config
    /\ writes' = add_live_lmk05318b(target.addresses, device).writes
    /\ pc' = "recorded"
    /\ UNCHANGED << entry, device, reg, value, inserted >>
    /\ UNCHANGED beside_image

\* The writes to the LMK05318b: those of do_set, which go to the device, and
\* those of add_live_lmk05318b, which are recorded for a saved configuration.
WritesInit == SetInit \/ LiveInit

WritesNext == Insert \/ MaskedWrite \/ AddLive

SpecWrites == WritesInit /\ [][WritesNext]_vars

\* ------------------------------------------------------------------------
\* freq_make_data(plan), then report_freq on the registers it made
\* ------------------------------------------------------------------------

\* The DPLL plans of the model: those of baw_plan_for_freq for the nominal
\* BAW frequency and for one beside it.
CodecDplls ==
    { baw_plan_for_freq([reference |-> r, pll1_pfd |-> DEFAULT_PLL1_PFD], FInt(BAW_FREQ)) :
        r \in DpllReferences }
    \cup { baw_plan_for_freq([reference |-> << 10, 1 >>, pll1_pfd |-> DEFAULT_PLL1_PFD],
                             << 20001, 8 >>) }

NoOutput == << 0, 0, 0 >>

\* Multipliers and divider triples: PLL2 unused, plans as the planner makes
\* them with one and with two post-dividers, with a multiplier of a fixed and
\* of another denominator, and plans that freq_make_data does not accept.
CodecPll2 ==
    { << ZERO, << << 0, 25, 1 >>, NoOutput, NoOutput, NoOutput, NoOutput, NoOutput >> >>,
      << ZERO, << << 0, 25, 1 >>, << 0, 250, 1 >>, NoOutput, NoOutput, NoOutput,
                  << 0, 250, 10000 >> >> >>,
      << << 45, 1 >>, << NoOutput, NoOutput, NoOutput, NoOutput, NoOutput,
                         << 5, 250, 50 >> >> >>,
      << << 45, 1 >>, << << 5, 125, 1 >>, << 2, 25, 1 >>, NoOutput, << 0, 100, 1 >>,
                         NoOutput, << 5, 250, 50 >> >> >>,
      << << 171, 4 >>, << << 0, 25, 1 >>, NoOutput, << 5, 19, 1 >>, NoOutput, NoOutput,
                          << 5, 19, 6250 >> >> >>,
      << << 423, 10 >>, << << 7, 6, 1 >>, NoOutput, NoOutput, NoOutput, << 3, 256, 1 >>,
                           << 7, 6, 257 >> >> >>,
      << << 423, 10 >>, << NoOutput, << 3, 7, 1 >>, NoOutput, NoOutput, NoOutput,
                           << 3, 7, 514 >> >> >>,
      << << 39073, 1024 >>, << << 6, 2, 1 >>, NoOutput, NoOutput, NoOutput, NoOutput,
                               << 7, 256, 2 >> >> >>,
      << << 45, 1 >>, << << 5, 125, 1 >>, << 2, 25, 1 >>, << 3, 25, 1 >>, NoOutput,
                         NoOutput, NoOutput >> >>,
      << << 45, 1 >>, << << 5, 257, 1 >>, NoOutput, NoOutput, NoOutput, NoOutput,
                         NoOutput >> >>,
      << << 45, 1 >>, << << 5, 125, 2 >>, NoOutput, NoOutput, NoOutput, NoOutput,
                         NoOutput >> >> }

CodecPlans ==
    { Plan(dpll, FMul(FDivInt(dpll.baw, FPD_DIVIDE), c[1]), c[1], c[2]) :
        dpll \in CodecDplls, c \in CodecPll2 }

CodecInit ==
    /\ entry = "freq_make_data"
    /\ target \in CodecPlans
    /\ pc = "make"
    /\ result = NoResult
    /\ checked = ""
    /\ ImageIdle
    /\ PllIdle
    /\ DpllIdle
    /\ ConfigIdle

\* data = freq_make_data(plan)
FreqMakeData ==
    /\ entry = "freq_make_data" /\ pc = "make"
    /\ IF freq_make_data(target).out = "returned"
       THEN /\ masked' = freq_make_data(target).data
            /\ pc' = "made"
            /\ UNCHANGED result
       ELSE /\ result' = [out |-> freq_make_data(target).out, plan |-> NoReport]
            /\ pc' = "rejected"
            /\ UNCHANGED masked
    /\ UNCHANGED << entry, target, checked, device, reg, value, inserted, writes >>
    /\ UNCHANGED << pll_vars, dpll_vars, config_vars, frame_vars >>

\* report_freq(dev) on a device that has the registers freq_make_data made,
\* with the reference of the plan.
ReportFreq ==
    /\ entry = "freq_make_data" /\ pc = "made"
    /\ device' = masked.data
    /\ result' = [out |-> report_freq(masked.data, target.dpll.reference).out,
                  plan |-> report_freq(masked.data, target.dpll.reference)]
    /\ pc' = "reported"
    /\ UNCHANGED << entry, target, checked, masked, reg, value, inserted, writes >>
    /\ UNCHANGED << pll_vars, dpll_vars, config_vars, frame_vars >>

CodecNext == FreqMakeData \/ ReportFreq

SpecCodec == CodecInit /\ [][CodecNext]_vars

\* ------------------------------------------------------------------------
\* do_freq: the registers of a plan written to the device
\* ------------------------------------------------------------------------

\* do_freq after plan() has returned the plan: the plans are those of
\* freq_make_data above, the device has any registers.
FreqInit ==
    /\ entry = "do_freq"
    /\ target \in CodecPlans
    /\ pc = "make"
    /\ device \in Devices
    /\ masked = << >>
    /\ reg = NoRegister /\ value = 0 /\ inserted = 0
    /\ writes = << >>
    /\ result = NoResult
    /\ checked = ""
    /\ PllIdle
    /\ DpllIdle
    /\ ConfigIdle

beside_freq == << entry, target, result, checked, reg, value, inserted, pll_vars, dpll_vars, config_vars >>

\* data = freq_make_data(plan); data.RESET_SW = 1
DoFreqData ==
    /\ entry = "do_freq" /\ pc = "make"
    /\ IF freq_make_data(target).out = "returned"
       THEN masked' = do_freq_held(freq_make_data(target).data) /\ pc' = "write"
       ELSE masked' = masked /\ pc' = freq_make_data(target).out
    /\ UNCHANGED << device, writes, frame_vars >>
    /\ UNCHANGED beside_freq

\* masked_write(dev, data)
DoFreqWrite ==
    /\ entry = "do_freq" /\ pc = "write"
    /\ masked' = masked_write_data(device, masked)
    /\ writes' = masked_write_writes(device, masked)
    /\ device' = masked_write_device(device, masked)
    /\ pc' = "release"
    /\ UNCHANGED frame_vars
    /\ UNCHANGED beside_freq

\* data.RESET_SW = 0; message.lmk05318b_write(dev.get_usb(), 12, data.data[12])
DoFreqRelease ==
    /\ entry = "do_freq" /\ pc = "release"
    /\ masked' = do_freq_released(masked)
    /\ writes' = Append(writes, do_freq_release(masked))
    /\ device' = written_device(device, << do_freq_release(masked) >>, 1)
    /\ pc' = "status"
    /\ UNCHANGED frame_vars
    /\ UNCHANGED beside_freq

\* message.lmk05318b_status(dev.get_usb())
DoFreqStatus ==
    /\ entry = "do_freq" /\ pc = "status"
    /\ wire' = lmk05318b_status
    /\ pc' = "done"
    /\ UNCHANGED << masked, device, writes, received >>
    /\ UNCHANGED beside_freq

FreqNext == DoFreqData \/ DoFreqWrite \/ DoFreqRelease \/ DoFreqStatus

SpecFreq == FreqInit /\ [][FreqNext]_vars

\* ------------------------------------------------------------------------
\* active_header, save_config and do_clear on a flash
\* ------------------------------------------------------------------------

\* What a slot holds: a blob and the erased bytes after it.
Stored(blob) == blob \o rep(255, SLOT_SIZE - Len(blob))

Blank == rep(255, SLOT_SIZE)

\* A blob with the generation gen and the messages of body, as make_config
\* leaves it.
Blob(gen, body) == padded(sealed(pack_header(word_of(gen), word_of(0)) \o body))

\* A blob one bit of which did not reach the flash: its CRC fails.
Torn(blob) == [blob EXCEPT ![17] = xor8(@, 1)]

\* A blob under a length no blob has.
Overlong(blob) == SubSeq(blob, 1, 12) \o pack_le(word_of(SLOT_SIZE + 1)) \o SubSeq(blob, 17, Len(blob))

\* An erased slot into which a byte was written.
Dirty == [Blank EXCEPT ![40] = 127]

\* Bodies of blobs: the writes of a chip; messages of every category, those
\* of a category apart from each other; and a body that ends with a
\* message without payload.
BodyLmk == lmk05318b_write(12, << 187 >>) \o lmk05318b_write(15, << 1, 2 >>)

BodyMixed ==
    lmk05318b_write(12, << 187 >>) \o frame(51, << 7, 8, 9 >>) \o set_baud(9600)
    \o set_ubx(<< << << 16, 116, 0, 1 >>, 1 >> >>) \o lmk05318b_write(15, << 3 >>)
    \o set_name(<< 70, 49 >>) \o frame(52, << 5, 6 >>) \o serial_sync(10000)

BodyStatus == lmk05318b_write(15, << 3 >>) \o frame(LMK05318B_STATUS, << >>)

\* The sectors of four slots the flash starts from: an erased one, one in
\* use, two that are full, and one with a hole before its blobs.
Erased == << Blank, Blank, Blank, Blank >>

Begun == << Stored(Blob(1, BodyLmk)), Stored(Blob(2, BodyMixed)), Blank, Blank >>

Full == << Stored(Blob(3, << >>)), Stored(Torn(Blob(5, BodyLmk))), Stored(Blob(4, BodyMixed)), Dirty >>

Holed == << Blank, Stored(Blob(4, BodyMixed)), Stored(Overlong(Blob(6, BodyLmk))), Blank >>

Worn == << Stored(Blob(2, BodyLmk)), Stored(Blob(3, BodyStatus)), Stored(Torn(Blob(4, << >>))), Stored(Blob(1, << >>)) >>

\* The two sectors of the second bank.
SecondBanks ==
    { << Erased, Erased >>, << Begun, Erased >>, << Erased, Begun >>, << Holed, Full >>,
      << Worn, Full >>, << Full, Worn >>, << Worn, Erased >>, << Full, Begun >> }

\* The first bank is written by the provisioning of the device only.
FirstBanks ==
    { << Blank, Blank, Blank, Blank, Blank, Blank, Blank, Blank >>,
      << Stored(Blob(4, BodyLmk)), Blank, Blank, Blank, Blank, Blank, Blank, Blank >>,
      << Blank, Stored(Blob(7, BodyStatus)), Blank, Blank, Blank, Blank, Blank, Blank >> }

\* The chips, the receivers and the names of the live devices.
Units ==
    { [lmk |-> [addresses |-> {15}, device |-> [j \in 1..DATA_SIZE |-> (37 * j + 90) % BYTE]],
       ubx |-> [baud_rom |-> 9600, baud_now |-> 9600, changes |-> << >>],
       name |-> << >>, serial |-> << 83, 69, 82 >>],
      [lmk |-> [addresses |-> {12, 15, 16}, device |-> [j \in 1..DATA_SIZE |-> FULL_MASK - ((37 * j + 90) % BYTE)]],
       ubx |-> [baud_rom |-> 9600, baud_now |-> 230400,
                changes |-> << << << 16, 116, 0, 1 >>, 1 >>, << UART1_BAUDRATE, 230400 >> >>],
       name |-> << 70, 49 >>, serial |-> << 83, 69, 82 >>] }

\* The flags of save_config; the dry run is that of both parts.
Flags == [save_ubx : BOOLEAN, save_lmk : BOOLEAN, dry_run : {FALSE}] \cup {[save_ubx |-> TRUE, save_lmk |-> TRUE, dry_run |-> TRUE]}

ConfigInit ==
    /\ entry = "" /\ pc = "idle"
    /\ target = << >>
    /\ result = NoResult /\ checked = ""
    /\ \E first \in FirstBanks, second \in SecondBanks : flash = concat(first) \o concat(second[1]) \o concat(second[2])
    /\ unit \in Units
    /\ outcome = NoOutcome /\ previous = NoCall
    /\ FrameIdle
    /\ ImageIdle
    /\ PllIdle
    /\ DpllIdle

\* What is kept of a call: the active header holds the bytes of its blob,
\* as after Config.fetch.
Outcome(call) == [out |-> call.out, config |-> call.config, issued |-> call.issued, active |-> IF call.active = NoConfig THEN NoConfig ELSE [call.active EXCEPT !.content = peek(flash, call.active.address, word_int(call.active.length))]]

beside_config == << result, checked, pll_vars, dpll_vars, image_vars, frame_vars >>

\* A call and the one that follows it.
Called(name, flags) ==
    /\ pc \in {"idle", "called"}
    /\ pc' = IF pc = "idle" THEN "called" ELSE "called again"
    /\ entry' = name
    /\ target' = flags
    /\ previous' = [entry |-> entry, target |-> target, out |-> outcome.out]
    /\ UNCHANGED beside_config

\* headers = get_headers(dev); active = active_header(dev, headers)
ActiveHeader ==
    /\ Called("active_header", << >>)
    /\ outcome' = [NoOutcome EXCEPT !.out = "header", !.active = active_header(flash, get_headers(flash))]
    /\ UNCHANGED << flash, unit >>

\* save_config(device, save_ubx, save_lmk, dry_run)
SaveConfig ==
    \E flags \in Flags :
        /\ Called("save_config", flags)
        /\ \E call \in {save_config(unit, flash, flags.save_ubx, flags.save_lmk, flags.dry_run)} :
               /\ outcome' = Outcome(call)
               /\ flash' = call.flash
        /\ UNCHANGED unit

\* do_clear(device)
DoClear ==
    /\ Called("do_clear", << >>)
    /\ \E call \in {do_clear(flash)} :
           /\ outcome' = Outcome(call)
           /\ flash' = call.flash
    /\ UNCHANGED unit

\* The chip, the receiver or the name of the device is set to something
\* else between two calls.
Reconfigure ==
    /\ Called("reconfigure", << >>)
    /\ unit' \in Units \ {unit}
    /\ outcome' = NoOutcome
    /\ UNCHANGED flash

ConfigNext == ActiveHeader \/ SaveConfig \/ DoClear \/ Reconfigure

SpecConfig == ConfigInit /\ [][ConfigNext]_vars

\* ------------------------------------------------------------------------
\* frame() and deframe(): a message is framed, travels over the serial
\* link, where it may be damaged, and is deframed
\* ------------------------------------------------------------------------

\* b'This is a test', the payload of test_simple()
TEST_PAYLOAD == << 84, 104, 105, 115, 32, 105, 115, 32, 97, 32, 116, 101, 115, 116 >>

Codes == {0, 18, LMK05318B_WRITE, 255}

\* Payloads up to the longest that fits, and one byte more.
Payloads == {<< >>, << 1 >>, << 0, 0 >>, TEST_PAYLOAD, rep(255, FRAME_LIMIT - 6), rep(0, FRAME_LIMIT - 5)}

FrameInit ==
    /\ entry = "" /\ pc = "idle"
    /\ target \in [code : Codes, payload : Payloads]
    /\ result = NoResult /\ checked = ""
    /\ ConfigIdle
    /\ ImageIdle
    /\ PllIdle
    /\ DpllIdle

beside_frame == << target, result, checked, pll_vars, dpll_vars, image_vars, config_vars >>

\* frame(code, payload); the assert on the length ends the call when the
\* payload is too long.
Frame ==
    /\ pc = "idle"
    /\ entry' = "frame"
    /\ pc' = IF frame_fits(target.payload) THEN "framed" ELSE "AssertionError"
    /\ wire' = IF frame_fits(target.payload) THEN frame(target.code, target.payload) ELSE << >>
    /\ UNCHANGED << received, beside_frame >>

\* The bytes with one bit of the byte at i turned over.
Flipped(bytes, i, bit) == [bytes EXCEPT ![i] = xor8(bytes[i], bit)]

\* The bytes before the CRC changed, and a CRC that fits them.
Resealed(body) == body \o crc16(body)

Unsealed(bytes) == SubSeq(bytes, 1, Len(bytes) - 2)

\* What may arrive in place of the bytes sent: a part of them, bytes with
\* a bit turned over, or a frame of well-formed CRC whose magic or length
\* byte is another, or that is longer than its length byte says.
Arrivals(bytes) ==
    {SubSeq(bytes, 1, k) : k \in {0, 1, 5, Len(bytes) - 1}}
    \cup {Flipped(bytes, i, bit) : i \in {1, 2, 3, 4, Len(bytes) - 2, Len(bytes) - 1, Len(bytes)}, bit \in {1, 128}}
    \cup {Resealed(Flipped(Unsealed(bytes), i, 1)) : i \in {1, 2, 4}}
    \cup {Resealed(Unsealed(bytes) \o << 0 >>), bytes \o << 0 >>, << 0 >> \o bytes}

Damage ==
    /\ pc = "framed"
    /\ pc' = "damaged"
    /\ wire' \in Arrivals(wire)
    /\ UNCHANGED << entry, received, beside_frame >>

\* deframe(message) of what has arrived
Deframe ==
    /\ pc \in {"framed", "damaged"}
    /\ entry' = "deframe"
    /\ pc' = IF pc = "framed" THEN "deframed" ELSE "deframed damaged"
    /\ received' = deframe(wire)
    /\ UNCHANGED << wire, beside_frame >>

FrameNext == Frame \/ Damage \/ Deframe

SpecFrame == FrameInit /\ [][FrameNext]_vars

\* ------------------------------------------------------------------------
\* Properties of plan() and pll2_plan()
\* ------------------------------------------------------------------------

\* The call has ended by returning a plan.
Returned == pc = "done" /\ result.out = "returned"

Outputs == 1..(BIG_DIVIDE + 1)

\* f * pre * stage1 * stage2 for a divider triple t.
Product(f, t) == FMulInt(FMulInt(FMulInt(f, t[1]), t[2]), t[3])

\* f * stage1 * stage2 for a triple of the PLL1 path.
Product1(f, t) == FMulInt(FMulInt(f, t[2]), t[3])

FeasibleBig(ratio, pre) ==
    { << pre, s1, ratio \div (pre * s1) >> :
      s1 \in { s \in 1..256 : /\ ratio % (pre * s) = 0
                              /\ ratio \div (pre * s) <= STAGE2_MAX
                              /\ (ratio \div (pre * s) > 1 => s >= 6) } }

\* The triples that give output i the ratio with a post-divider of P.
FeasibleTriples(i, ratio, P) ==
    IF i = BIG_DIVIDE + 1 THEN UNION { FeasibleBig(ratio, pre) : pre \in P }
    ELSE { << pre, ratio \div pre, 1 >> :
           pre \in { q \in P : ratio % q = 0 /\ ratio \div q \in 1..256 } }

\* At most two shared post-dividers in 2..7.
PostDividerSets == { P \in SUBSET (2..7) : Cardinality(P) \in 1..2 }

FeasibleChoices(freqs, pll2_freq, P) ==
    [ i \in Outputs |->
      IF IsZero(freqs[i]) THEN { << 0, 0, 0 >> }
      ELSE IF FDiv(pll2_freq, freqs[i])[2] # 1 THEN {}
      ELSE FeasibleTriples(i, FDiv(pll2_freq, freqs[i])[1], P) ]

\* The feasible plans at one PLL2 frequency with the post-dividers P: every
\* decomposition of the big-divide output, and one decomposition of each
\* other output, whose triple the quality ordering does not look at.
FeasiblePlansOf(freqs, pll2_freq, P, choices, multiplier) ==
    IF \E i \in Outputs : choices[i] = {} THEN {}
    ELSE { PLLPlan(FMul(PLL2_PFD, multiplier), pll2_freq, multiplier,
                   { b \in ALL_PAIRS : P \subseteq { b \div 8, b % 8 } },
                   [ i \in Outputs |-> IF i = BIG_DIVIDE + 1 THEN t
                                       ELSE CHOOSE x \in choices[i] : TRUE ],
                   freqs) :
           t \in choices[BIG_DIVIDE + 1] }

\* The feasible plans for the multiples of pll2_lcm in [PLL2_LOW, PLL2_HIGH].
FeasiblePlans(freqs, lcm) ==
    UNION { FeasiblePlansOf(freqs, FMulInt(lcm, m), P,
                            FeasibleChoices(freqs, FMulInt(lcm, m), P),
                            limit_denominator(FDiv(FMulInt(lcm, m), PLL2_PFD),
                                              MULT_DEN_MAX)) :
            m \in pll2_start(lcm)..pll2_end(lcm), P \in PostDividerSets }

\* C2 as stated: when pll2_plan returns a plan, no feasible plan for a
\* multiple of pll2_lcm in [PLL2_LOW, PLL2_HIGH] is strictly better in the
\* quality ordering PLLPlan.__lt__.
C2_NoBetterFeasiblePlan ==
    (entry = "pll2_plan" /\ Returned) =>
        \A q \in FeasiblePlans(pll2, pll2_lcm) : ~PLLPlan_lt(q, result.plan)

\* C3 as stated: in every plan returned by plan(), every enabled output has
\* pre in {0} or 2..7, stage1 in 1..256, stage2 in 1..2^STAGE2_BITS, stage1
\* at least 6 when stage2 is above 1, and stage2 = 1 off the big-divide
\* output.
C3_DividerRanges ==
    (entry = "plan" /\ Returned) =>
        \A i \in Outputs :
            result.plan.dividers[i][2] # 0 =>
                /\ result.plan.dividers[i][1] \in {0} \cup 2..7
                /\ result.plan.dividers[i][2] \in 1..256
                /\ result.plan.dividers[i][3] \in 1..STAGE2_MAX
                /\ (result.plan.dividers[i][3] > 1 => result.plan.dividers[i][2] >= 6)
                /\ (i # BIG_DIVIDE + 1 => result.plan.dividers[i][3] = 1)

\* C4 as stated: validate() succeeds on every returned plan that uses PLL2.
C4_ValidateSucceeds ==
    (checked # "" /\ ~IsZero(result.plan.freq_target)) => checked = "ok"

\* The non-zero pre values of a plan.
UsedPostDividers(plan) == { plan.dividers[i][1] : i \in Outputs } \ {0}

\* C5: the non-zero pre values of a plan returned by pll2_plan are at most
\* two, all in 2..7, and the assertion of freq_make_data on them holds.
C5_TwoPostDividers ==
    (entry = "pll2_plan" /\ Returned) =>
        /\ Cardinality(UsedPostDividers(result.plan)) <= 2
        /\ UsedPostDividers(result.plan) \subseteq 2..7
        /\ freq_make_data_postdivs(result.plan.dividers, 1, 0, 0)[3]

\* pll2_plan returned a plan whose outputs use two different post-dividers.
C5_TwoInUse ==
    /\ entry = "pll2_plan" /\ Returned
    /\ Cardinality(UsedPostDividers(result.plan)) = 2

\* C7 as stated: a call of plan() ends by returning a plan or by raising
\* PlanningFailed, never with an assertion failure, an unbound name or
\* another exception.
C7_StructuredFailure ==
    (entry = "plan" /\ pc = "done") => result.out \in {"returned", "PlanningFailed"}

\* C6 as stated: every plan dpll_plan returns passes validate(), and its
\* fb_prediv is in 2..17.
C6_DpllPlanValid ==
    (entry = "dpll_plan" /\ Returned) =>
        /\ DPLLPlan_validate(result.plan) = "ok"
        /\ result.plan.fb_prediv \in 2..17

\* The parts of C6 that do not rest on the denominator of fb_div.
C6_DpllPlanValidButDenominator ==
    (entry = "dpll_plan" /\ Returned) =>
        /\ DPLLPlan_validate(result.plan) \in {"ok", "AssertionError: denominator"}
        /\ result.plan.fb_div[2] <= FB_DEN_LIMIT
        /\ result.plan.fb_prediv \in 2..17

\* ------------------------------------------------------------------------
\* Properties of MaskedBytes and of masked writes
\* ------------------------------------------------------------------------

\* Bit n of the byte at address a of an image lies in register r.
InRegister(r, a, n) ==
    /\ a >= r.base_address /\ a < r.base_address + r.byte_span
    /\ LET at == 8 * (r.base_address + r.byte_span - 1 - a) + n
       IN  at >= r.shift /\ at < r.shift + r.width

Bits == 0..7

\* C9: after masked.insert(r, v) on any image, extract(r) is v,
\* extract_mask(r) is 2^width - 1, and every bit of data and of mask outside
\* the bits of r is as it was.
C9_InsertExtract ==
    [][(entry = "do_set" /\ inserted' = inserted + 1) =>
        /\ MaskedBytes_extract(masked', reg') = value'
        /\ MaskedBytes_extract_mask(masked', reg') = Pow2(reg'.width) - 1
        /\ \A a \in Addresses : \A n \in Bits :
            ~InRegister(reg', a, n) =>
                /\ Bit(masked'.data[a + 1], n) = Bit(masked.data[a + 1], n)
                /\ Bit(masked'.mask[a + 1], n) = Bit(masked.mask[a + 1], n)]_vars

\* An insert into a register over several bytes, of a value with bits of
\* both kinds, on an image that has bits written outside the register.
C9_InsertedOverOthers ==
    /\ entry = "do_set" /\ pc = "insert" /\ inserted = 2
    /\ reg.byte_span > 1 /\ value = Stripes(reg.width)
    /\ \E a \in Addresses : \E n \in Bits :
        ~InRegister(reg, a, n) /\ Bit(masked.mask[a + 1], n) = 1
                               /\ Bit(masked.data[a + 1], n) = 1

\* C10: after masked_write(dev, data), every bit of the device that
\* data.mask had set, at an address that is written, is the bit of
\* data.data, and every bit that data.mask had not set is as it was; the
\* bytes it writes, those its mask is left with, are the ones that had a
\* mask other than 0 at an address that is written.
C10_ReadModifyWrite ==
    [][(entry = "do_set" /\ pc = "insert" /\ pc' = "written") =>
        \A a \in Addresses :
            /\ masked'.mask[a + 1] =
                   IF a \notin NeverWritten /\ masked.mask[a + 1] # 0 THEN FULL_MASK ELSE 0
            /\ \A n \in Bits :
                /\ (a \notin NeverWritten /\ Bit(masked.mask[a + 1], n) = 1) =>
                       Bit(device'[a + 1], n) = Bit(masked.data[a + 1], n)
                /\ Bit(masked.mask[a + 1], n) = 0 =>
                       Bit(device'[a + 1], n) = Bit(device[a + 1], n)]_vars

\* A write of a byte with a part of its mask set, that changed the device.
C10_PartialWritten ==
    /\ entry = "do_set" /\ pc = "written"
    /\ reg = Register(15, 1, 4, 4)
    /\ \E d \in Devices : device # d /\ device[16] % 16 = d[16] % 16
                          /\ \A j \in 1..DATA_SIZE : j # 16 => device[j] = d[j]

\* ------------------------------------------------------------------------
\* Properties of freq_make_data and report_freq
\* ------------------------------------------------------------------------

\* The source of output i of a plan, and the frequency of the output.
PlanSource(plan, i) == IF plan.dividers[i][1] = 0 THEN plan.dpll.baw ELSE plan.pll2

PlanOutput(plan, i) ==
    FDivInt(PlanSource(plan, i),
            Max(plan.dividers[i][1], 1) * plan.dividers[i][2] * plan.dividers[i][3])

\* The pre-divider that a report has for a channel.
ReportedPre(data, channel) ==
    IF channel.mux = 2 THEN field(data, "PLL2_P1") + 1
    ELSE IF channel.mux = 3 THEN field(data, "PLL2_P2") + 1
    ELSE 0

\* A report of the registers `data` has the frequencies and the divider
\* triples of the plan.
Agrees(report, data, plan) ==
    /\ report.out = "reported"
    /\ report.baw = plan.dpll.baw
    /\ report.pll2 = plan.pll2
    /\ \A i \in 1..Len(plan.dividers) :
        plan.dividers[i][2] # 0 =>
            /\ report.channels[i].freq = PlanOutput(plan, i)
            /\ report.channels[i].pd = 0
            /\ << ReportedPre(data, report.channels[i]), report.channels[i].div,
                  report.channels[i].s2div >> = plan.dividers[i]

\* C8 as stated: for every plan that freq_make_data accepts, the report of
\* the registers it made has the BAW frequency, the PLL2 frequency, and for
\* every enabled output the frequency and the divider triple of the plan.
C8_CodecRoundTrip ==
    (entry = "freq_make_data" /\ pc = "reported") => Agrees(result.plan, masked.data, target)

\* What holds in place of C8: the report agrees with the plan once
\* DPLL_PRIREF_RDIV, which freq_make_data leaves out, is set to the ref_div
\* of the plan.
RoundTripWithReferenceDivider ==
    (entry = "freq_make_data" /\ pc = "reported") =>
        /\ result.out = "AssertionError"
        /\ MaskedBytes_extract_mask(masked, REGISTERS["DPLL_PRIREF_RDIV"]) = 0
        /\ Agrees(report_freq(MaskedBytes_insert(masked, REGISTERS["DPLL_PRIREF_RDIV"],
                                                 target.dpll.ref_div).data,
                              target.dpll.reference),
                  masked.data, target)

\* ------------------------------------------------------------------------
\* Properties of the writes to the LMK05318b
\* ------------------------------------------------------------------------

\* The addresses a write << base, bytes >> covers.
Covered(write) == { a \in Addresses : a >= write[1] /\ a < write[1] + Len(write[2]) }

\* C11: no write of masked_write, and no write add_live_lmk05318b records
\* for a saved configuration, covers one of the addresses 0..11, 13 and 14.
C11_ProtectedAddresses ==
    \A k \in 1..Len(writes) : Covered(writes[k]) \cap NeverWritten = {}

\* add_live_lmk05318b has recorded the writes for a table with all the
\* addresses: address 12, between protected ones, is written, and so is 15.
C11_RecordedBesideProtected ==
    /\ entry = "add_live_lmk05318b" /\ pc = "recorded"
    /\ target.addresses = Addresses
    /\ \E k \in 1..Len(writes) : 12 \in Covered(writes[k])
    /\ \E k \in 1..Len(writes) : 15 \in Covered(writes[k])

\* Runs (start, count) of at least 1 and at most max_block addresses, in
\* strictly ascending order without overlap, two of them adjacent only when
\* the first is full, that cover exactly the addresses whose mask is
\* selected.
RunsInOrder(runs, select, mask, max_block) ==
    /\ \A k \in 1..Len(runs) : runs[k][1] >= 0 /\ runs[k][2] >= 1 /\ runs[k][2] <= max_block
    /\ \A k \in 1..(Len(runs) - 1) :
        /\ runs[k][1] + runs[k][2] <= runs[k + 1][1]
        /\ runs[k][1] + runs[k][2] = runs[k + 1][1] => runs[k][2] = max_block
    /\ RangeAddresses(runs) = { a \in Addresses : select_mask(select, mask[a + 1]) }

\* C12: MaskedBytes.ranges(select, max_block) returns such runs, for the
\* select of complete_partials and for the default one; and masked_write
\* sends one write for each run of ranges(max_block) of the image it writes
\* from, in the order of the runs, with the bytes of the run.
C12_BurstOrdering ==
    entry = "do_set" =>
        /\ \A select \in {"partial", "nonzero"} :
            RunsInOrder(MaskedBytes_ranges(masked, select, MAX_BLOCK), select,
                        masked.mask, MAX_BLOCK)
        /\ pc = "written" =>
            /\ Len(writes) = Len(MaskedBytes_ranges(masked, "nonzero", MAX_BLOCK))
            /\ \A k \in 1..Len(writes) :
                /\ writes[k][1] = MaskedBytes_ranges(masked, "nonzero", MAX_BLOCK)[k][1]
                /\ Len(writes[k][2]) = MaskedBytes_ranges(masked, "nonzero", MAX_BLOCK)[k][2]
                /\ writes[k][2] = slice(masked.data, writes[k][1], Len(writes[k][2]))
            /\ \A k \in 1..(Len(writes) - 1) : writes[k][1] < writes[k + 1][1]

\* masked_write has sent a full burst and, next to it, another one.
C12_AdjacentBursts ==
    /\ entry = "do_set" /\ pc = "written"
    /\ \E k \in 1..(Len(writes) - 1) :
        /\ Len(writes[k][2]) = MAX_BLOCK
        /\ writes[k][1] + MAX_BLOCK = writes[k + 1][1]

\* ------------------------------------------------------------------------
\* Properties of the configuration blobs in flash
\* ------------------------------------------------------------------------

\* The slots whose header is valid and whose blob has the verifying CRC-32
\* over its full length.
Verifying == { i \in 1..16 : is_valid(get_headers(flash)[i]) /\ crc32(peek(flash, ADDRESSES[i], word_int(get_headers(flash)[i].length))) = VERIFY_MAGIC }

\* g is at most h in (generation, address) order.
NotAfter(g, h) == word_int(g.generation) < word_int(h.generation) \/ (g.generation = h.generation /\ g.address <= h.address)

\* C13: active_header returns None iff no valid header has a full-length
\* CRC-32 equal to the verify magic; otherwise it returns the valid,
\* CRC-verifying header that is greatest in (generation, address) order.
C13_ActiveHeader ==
    entry = "active_header" =>
        /\ outcome.active = NoConfig <=> Verifying = {}
        /\ Verifying # {} =>
               \E i \in Verifying :
                   /\ [outcome.active EXCEPT !.content = << >>] = get_headers(flash)[i]
                   /\ \A j \in Verifying : NotAfter(get_headers(flash)[j], get_headers(flash)[i])

\* A valid header of a higher generation whose CRC fails was passed over.
C13_HigherGenerationSkipped ==
    /\ entry = "active_header" /\ outcome.active # NoConfig
    /\ \E j \in (1..16) \ Verifying :
           /\ is_valid(get_headers(flash)[j])
           /\ word_int(get_headers(flash)[j].generation) > word_int(outcome.active.generation)

\* The length field of a blob, and the generation after that of the active
\* blob.
BlobLength(blob) == word_int(<< blob[16], blob[15], blob[14], blob[13] >>)

GenerationAfter(active) == IF active = NoConfig THEN 1 ELSE word_int(active.generation) + 1

WellFormed(blob, active) ==
    /\ Len(blob) >= 20
    /\ SubSeq(blob, 1, 8) = << 206, 166, 114, 75, 1, 0, 0, 0 >>
    /\ SubSeq(blob, 9, 12) = le_bytes(GenerationAfter(active), 4)
    /\ BlobLength(blob) >= 20 /\ BlobLength(blob) <= Len(blob)
    /\ SubSeq(blob, BlobLength(blob) - 3, BlobLength(blob)) = crc32(SubSeq(blob, 1, BlobLength(blob) - 4))
    /\ crc32(SubSeq(blob, 1, BlobLength(blob))) = << 56, 251, 34, 132 >>
    /\ Len(blob) % 32 = 0
    /\ \A i \in (BlobLength(blob) + 1)..Len(blob) : blob[i] = 255

\* C14: every blob make_config returns, and the blob do_clear builds, has
\* the little-endian header (magic, version 1, generation, length L) with
\* the generation 1 without an active blob and one more than the active
\* one's otherwise, the big-endian CRC-32 of bytes [0, L-4) in bytes
\* [L-4, L), the verify magic as the CRC-32 of bytes [0, L), a size that is
\* a multiple of 32 and 0xff in every byte from L on.
C14_BlobWellFormed == entry \in {"save_config", "do_clear"} /\ outcome.config # << >> => WellFormed(outcome.config, outcome.active)

\* A blob made over an active one, and an empty one, with padding.
C14_PaddedBlobs ==
    /\ entry = "save_config" /\ outcome.out = "True" /\ outcome.active # NoConfig
    /\ BlobLength(outcome.config) > 20 /\ BlobLength(outcome.config) < Len(outcome.config)
    /\ previous.entry = "do_clear" /\ previous.out = "None"

\* The call wrote a blob to the flash.
Wrote == entry = "save_config" /\ outcome.out = "True" /\ outcome.issued # << >>

\* C15: every blob save_config writes to flash has a length field between
\* 20 and the size of a slot and a padded size of at most a slot, so that
\* the written header is valid and the poke stays inside the slot.
C15_SlotBound ==
    Wrote =>
        /\ BlobLength(outcome.config) >= 20 /\ BlobLength(outcome.config) <= SLOT_SIZE
        /\ Len(outcome.config) <= SLOT_SIZE
        /\ is_valid(Config(0, outcome.config))

\* The last call repeats the one before it, which wrote a blob, on the
\* same device.
Repeated ==
    /\ entry = "save_config" /\ ~ target.dry_run
    /\ previous.entry = "save_config" /\ previous.out = "True" /\ previous.target = target

\* C16: a save_config that follows one with the same flags that wrote a
\* blob, the live device unchanged, returns False and issues no poke and
\* no flash_erase.
C16_IdempotentSave == Repeated => outcome.out = "False" /\ outcome.issued = << >>

\* The same for the blobs that fit a slot: the candidate of the repeated
\* call is longer than a slot whenever it is written again.
IdempotentWithinSlot == Repeated /\ outcome.out # "False" => outcome.out = "True" /\ BlobLength(outcome.config) > SLOT_SIZE

RepeatedUnwritten == Repeated /\ outcome.out = "False" /\ outcome.issued = << >>

\* The framed messages of the bytes data[done+1..end], by their length
\* fields: a UBX frame is its payload and eight bytes, a frame of the
\* device its payload and six.
RECURSIVE Messages(_, _, _)
Messages(data, done, end) ==
    IF done >= end THEN << >>
    ELSE IF data[done + 1] = 181
    THEN << SubSeq(data, done + 1, done + data[done + 5] + 256 * data[done + 6] + 8) >> \o Messages(data, done + data[done + 5] + 256 * data[done + 6] + 8, end)
    ELSE << SubSeq(data, done + 1, done + data[done + 4] + 6) >> \o Messages(data, done + data[done + 4] + 6, end)

BlobMessages(blob) == Messages(blob, 16, BlobLength(blob) - 4)

CategoryOf(msg) ==
    IF msg[1] = 181 THEN "UBX"
    ELSE IF msg[3] = 96 THEN "LMK"
    ELSE IF msg[3] \in {30, 31} THEN "UBX"
    ELSE IF msg[3] = GET_SET_NAME THEN "NAME"
    ELSE "UNKNOWN"

InCategory(blob, typ) == SelectSeq(BlobMessages(blob), LAMBDA msg : CategoryOf(msg) = typ)

\* The messages of the category are the same, in the same order, in the
\* active blob and in the new one.
Kept(typ) == InCategory(outcome.active.content, typ) = InCategory(outcome.config, typ)

KeptAll ==
    /\ ~ target.save_lmk => Kept("LMK")
    /\ ~ target.save_ubx => Kept("UBX")
    /\ Kept("UNKNOWN")

\* C17: when make_config runs with an active prior blob, the messages of
\* every category that is not saved again (LMK without save_lmk, UBX
\* without save_ubx, the unrecognised ones always) are in the new blob byte
\* for byte and in their order, none dropped, altered or duplicated.
C17_CategoriesPreserved ==
    entry = "save_config" /\ outcome.active # NoConfig =>
        /\ outcome.out \in {"True", "False"}
        /\ outcome.out = "True" => KeptAll

\* The same for the calls that return a blob.
KeptWhenMade == entry = "save_config" /\ outcome.active # NoConfig /\ outcome.out = "True" => KeptAll

\* A blob made from one with messages of every category.
KeptOfEveryCategory ==
    /\ entry = "save_config" /\ outcome.out = "True" /\ ~ target.save_lmk /\ ~ target.save_ubx
    /\ Len(InCategory(outcome.active.content, "LMK")) > 1
    /\ Len(InCategory(outcome.active.content, "UBX")) > 1
    /\ Len(InCategory(outcome.active.content, "UNKNOWN")) > 1

\* ------------------------------------------------------------------------
\* Properties of frame() and deframe()
\* ------------------------------------------------------------------------

\* One bit of the CRC-16 of polynomial 0x1021: the sixteen bits go up by
\* one, and the polynomial is taken off when a bit falls out at the top.
Crc16Bit(crc) ==
    IF crc[1] >= 128
    THEN << xor8((2 * crc[1] + crc[2] \div 128) % 256, 16), xor8((2 * crc[2]) % 256, 33) >>
    ELSE << (2 * crc[1] + crc[2] \div 128) % 256, (2 * crc[2]) % 256 >>

\* Eight bits, one byte.
RECURSIVE Crc16Bits(_, _)
Crc16Bits(crc, k) == IF k = 0 \/ Len(crc) # 2 THEN crc ELSE Crc16Bits(Crc16Bit(crc), k - 1)

RECURSIVE Crc16From(_, _, _, _)
Crc16From(bytes, i, n, crc) == IF i > n \/ Len(crc) # 2 THEN crc ELSE Crc16From(bytes, i + 1, n, Crc16Bits(<< xor8(crc[1], bytes[i]), crc[2] >>, 8))

\* The CRC-16 of the first n bytes, from 0, high byte first.
Crc16Of(bytes, n) == Crc16From(bytes, 1, n, << 0, 0 >>)

\* The frame of the target as the format gives it.
Layout == << 206, 147, target.code, Len(target.payload) >> \o target.payload

\* The bytes are no frame: too short, another magic, a CRC-16 that is not
\* zero, or a length byte that is not the length less six.
Malformed(bytes) ==
    \/ Len(bytes) < 6
    \/ SubSeq(bytes, 1, 2) # << 206, 147 >>
    \/ Crc16Of(bytes, Len(bytes)) # << 0, 0 >>
    \/ bytes[4] # Len(bytes) - 6

\* C18: for a payload of at most 58 bytes frame(code, payload) is CE 93,
\* the code, the length of the payload, the payload and the big-endian
\* CRC-16 (polynomial 0x1021, from 0) of these bytes; the CRC-16 of the
\* whole frame is 0; deframe() of the frame is Message(code, payload); and
\* deframe() raises ValueError for bytes that are shorter than 6, have
\* another magic, a CRC-16 that is not 0 or a length byte that is not the
\* length less 6.
C18_FrameRoundTrip ==
    /\ pc = "AssertionError" => Len(target.payload) > 58
    /\ pc \in {"framed", "deframed"} =>
           /\ Len(target.payload) <= 58
           /\ wire = Layout \o Crc16Of(Layout, Len(Layout))
           /\ Crc16Of(wire, Len(wire)) = << 0, 0 >>
    /\ pc = "deframed" => received = Message(target.code, target.payload)
    /\ pc \in {"deframed", "deframed damaged"} /\ Malformed(wire) => received.out = "ValueError"

\* The longest payload has made the round trip, and a frame whose payload
\* has lost a bit was refused for its CRC.
C18_LongestFramed == pc = "deframed" /\ Len(target.payload) = 58 /\ received.out = "Message"

C18_DamageRefused == pc = "deframed damaged" /\ Len(wire) = 20 /\ wire[4] = 14 /\ received = ValueError("Bad CRC")

\* ------------------------------------------------------------------------
\* Properties of next_header()
\* ------------------------------------------------------------------------

\* The slots of the second bank that are empty before the call: every byte
\* is 0xff (so are the four words of the header, and the CRC-32 of the slot
\* is that of an empty one).
EmptySlots == { i \in 9..16 : \A k \in 1..SLOT_SIZE : flash[(i - 1) * SLOT_SIZE + k] = 255 }

\* The order in which the slots are examined: the sector from 0x0801e000
\* first when the current config is in it.
ScanOrder(current) == IF current # NoConfig /\ current.address >= ADDRESSES[13] THEN << 13, 14, 15, 16, 9, 10, 11, 12 >> ELSE << 9, 10, 11, 12, 13, 14, 15, 16 >>

\* The call that follows writes to the flash, so it runs next_header().
Writes == entry' \in {"save_config", "do_clear"} /\ outcome'.issued # << >>

Erases == SelectSeq(outcome'.issued, LAMBDA c : c.op = "flash_erase")

Pokes == SelectSeq(outcome'.issued, LAMBDA c : c.op = "poke")

\* The blob goes to the slot returned.
GoesTo(slot) == Pokes # << >> /\ Pokes[1].address = ADDRESSES[slot]

\* The first empty slot in the order is returned and nothing is erased.
FirstEmptyReturned(order) ==
    \A k \in 1..8 :
        order[k] \in EmptySlots /\ (\A j \in 1..(k - 1) : order[j] \notin EmptySlots) => Erases = << >> /\ GoesTo(order[k])

\* One flash_erase is issued, before any poke, and the first slot of the
\* erased sector is returned.
ErasedAndReturned ==
    /\ Len(Erases) = 1
    /\ outcome'.issued[1] = Erases[1]
    /\ \E slot \in {9, 13} : Erases[1].address = ADDRESSES[slot] /\ GoesTo(slot)

PreferredFull(order) == \A k \in 1..4 : order[k] \notin EmptySlots

\* C19 as stated: next_header examines the slots 12..15 then 8..11 when
\* the current config is at 0x0801e000 or above and 8..15 otherwise, and
\* returns the first empty one without erasing; if no slot of the
\* preferred group is empty it issues exactly one flash_erase and returns
\* the first slot of the erased sector.
C19_ErasesWhenPreferredFull ==
    [][Writes => /\ FirstEmptyReturned(ScanOrder(outcome'.active))
                 /\ PreferredFull(ScanOrder(outcome'.active)) => ErasedAndReturned]_vars

\* C19, amended: the erase happens when none of the eight slots is empty,
\* and the sector erased is the one examined last, which does not hold the
\* current config.
C19_ErasesWhenAllFull ==
    [][Writes => /\ FirstEmptyReturned(ScanOrder(outcome'.active))
                 /\ EmptySlots # {} => Erases = << >>
                 /\ EmptySlots = {} => ErasedAndReturned /\ GoesTo(ScanOrder(outcome'.active)[5])]_vars

\* A sector was erased although the current config is in the second bank,
\* and a blob went to an empty slot of the sector that is not preferred.
C19_Erased == outcome.issued # << >> /\ outcome.issued[1].op = "flash_erase" /\ outcome.active # NoConfig /\ outcome.active.address >= SECOND_BANK

C19_OtherSectorUsed ==
    /\ outcome.issued # << >> /\ outcome.issued[1].op = "poke"
    /\ outcome.active # NoConfig /\ outcome.active.address >= ADDRESSES[13]
    /\ outcome.issued[1].address < ADDRESSES[13]

\* ------------------------------------------------------------------------
\* Properties of the ordering of the DPLL plans
\* ------------------------------------------------------------------------

\* The candidate plans of the last loop of dpll_plan: one for each
\* frequency counted.
Candidates == { baw_plan_for_freq(target, f) : f \in DOMAIN counts }

\* dpll_plan has returned the best of its candidates.
BestReturned == entry = "dpll_plan" /\ pc = "done" /\ DOMAIN counts # {} /\ result.out = "returned"

\* The error of a plan against its own target.
OwnError(p) == FAbs(FSub(p.baw, p.baw_target))

\* The ordering with the error of each plan against its own baw_target,
\* then the distance from the nominal BAW frequency, fb_prediv, the
\* denominator of fb_div and fb_div.
OwnLt(a, b) ==
    IF OwnError(a) # OwnError(b) THEN FLt(OwnError(a), OwnError(b))
    ELSE IF FAbs(FSub(a.baw, FInt(BAW_FREQ))) # FAbs(FSub(b.baw, FInt(BAW_FREQ)))
    THEN FLt(FAbs(FSub(a.baw, FInt(BAW_FREQ))), FAbs(FSub(b.baw, FInt(BAW_FREQ))))
    ELSE IF a.fb_prediv # b.fb_prediv THEN a.fb_prediv < b.fb_prediv
    ELSE IF a.fb_div[2] # b.fb_div[2] THEN a.fb_div[2] < b.fb_div[2]
    ELSE FLt(a.fb_div, b.fb_div)

\* C20: DPLLPlan.__lt__ is a strict total order on the candidate plans,
\* also on candidates aimed at different BAW targets: never both a < b and
\* b < a, a < b and b < c imply a < c, the error of each plan is measured
\* against its own baw_target, and no candidate is better than the plan
\* dpll_plan returns.
C20_StrictTotalOrder ==
    BestReturned =>
        /\ \A a, b \in Candidates : ~ (DPLLPlan_lt(a, b) /\ DPLLPlan_lt(b, a))
        /\ \A a, b, c \in Candidates : DPLLPlan_lt(a, b) /\ DPLLPlan_lt(b, c) => DPLLPlan_lt(a, c)
        /\ \A a, b \in Candidates : DPLLPlan_lt(a, b) <=> OwnLt(a, b)
        /\ result.plan \in Candidates
        /\ \A a \in Candidates : ~ DPLLPlan_lt(a, result.plan) /\ ~ OwnLt(a, result.plan)

\* The parts of it, each on its own.
Asymmetric == BestReturned => \A a, b \in Candidates : ~ (DPLLPlan_lt(a, b) /\ DPLLPlan_lt(b, a))

Transitive == BestReturned => \A a, b, c \in Candidates : DPLLPlan_lt(a, b) /\ DPLLPlan_lt(b, c) => DPLLPlan_lt(a, c)

OwnTarget == BestReturned => \A a, b \in Candidates : DPLLPlan_lt(a, b) <=> OwnLt(a, b)

Undominated == BestReturned => \A a \in Candidates : ~ DPLLPlan_lt(a, result.plan)

UndominatedOwn == BestReturned => \A a \in Candidates : ~ OwnLt(a, result.plan)

\* The loop had more than one candidate to compare.
SeveralCandidates == BestReturned /\ Cardinality(Candidates) > 1

\* ------------------------------------------------------------------------
\* Properties of baw_plan_for_freq()
\* ------------------------------------------------------------------------

\* The frequency baw_plan_for_freq is called for.
AimedAt == FMulInt(target.pll1_base, single_baw_mult(target.pll1_base))

\* The feedback divider for a pre-divider, approximated to the width of
\* the denominator, and the BAW frequency it gives.
Approximated(pre) == limit_denominator(FDivInt(FDivInt(FDiv(AimedAt, target.reference), 2), pre), FB_DEN_LIMIT - 1)

BawOf(pre) == FMul(FMulInt(target.reference, 2 * pre), Approximated(pre))

\* Below 1 or within 1/8 of an integer.
Degenerate(x) == FLt(x, FInt(1)) \/ FLt(FAbs(FSub(x, FInt(Round(x)))), Fraction(1, 8))

BawPlanned == entry = "dpll_plan" /\ pc = "done" /\ ~ Falsy(target.pll1_base) /\ result.out = "returned"

\* C21: a pre-divider in 2..17 whose fb_div is below 1 or within 1/8 of an
\* integer is rejected unless its plan is exact, and then it is accepted:
\* no inexact plan returned has fb_div within 1/8 of an integer, and an
\* exact plan is returned whenever some pre-divider in 2..17 yields one.
C21_SigmaDeltaFilter ==
    BawPlanned =>
        /\ result.plan.baw # AimedAt => ~ Degenerate(result.plan.fb_div)
        /\ (\E pre \in 2..17 : BawOf(pre) = AimedAt) => result.plan.baw = AimedAt

\* What holds: no plan returned, exact or not, has a degenerate fb_div, and
\* an exact plan is returned whenever a pre-divider whose fb_div is not
\* degenerate yields one.
FilterWithoutException ==
    BawPlanned =>
        /\ ~ Degenerate(result.plan.fb_div)
        /\ (\E pre \in 2..17 : BawOf(pre) = AimedAt /\ ~ Degenerate(Approximated(pre))) => result.plan.baw = AimedAt

ExactPassedOver == BawPlanned /\ result.plan.baw # AimedAt /\ \E pre \in 2..17 : BawOf(pre) = AimedAt

\* ------------------------------------------------------------------------
\* Properties of sym_range()
\* ------------------------------------------------------------------------

\* No multiplier of the inputs is above it.
SYM_MAX == 40

\* The integers m with low <= m * f <= high and m <= limit.
InRange == { x \in 0..SYM_MAX : FLe(target.low, FMulInt(target.f, x)) /\ FLe(FMulInt(target.f, x), target.high) /\ x <= target.limit }

MidPoint == FDivInt(FAdd(target.low, target.high), 2)

\* The distance of m * f from the mid-point.
FromMid(x) == FAbs(FSub(FMulInt(target.f, x), MidPoint))

\* The distance of m from the last multiplier at or below the mid-point.
FromOffset(x) == IF x >= Floor(FDiv(MidPoint, target.f)) THEN x - Floor(FDiv(MidPoint, target.f)) ELSE Floor(FDiv(MidPoint, target.f)) - x

\* Every value once and nothing else, the even ones before the odd ones.
OnceEvenFirst ==
    /\ \A j, k \in 1..Len(yielded) : j < k => yielded[j] # yielded[k]
    /\ \A j \in 1..Len(yielded) : yielded[j] \in InRange
    /\ pc = "done" => \A x \in InRange : \E j \in 1..Len(yielded) : yielded[j] = x
    /\ \A j, k \in 1..Len(yielded) : j < k => ~ (yielded[j] % 2 = 1 /\ yielded[k] % 2 = 0)

Admissible ==
    (IF 2 <= target.ratio /\ target.ratio <= 256 THEN {<< target.ratio, 1 >>} ELSE {})
    \cup (IF target.index = 5 /\ target.ratio > 256
          THEN { << s1, target.ratio \div s1 >> : s1 \in { s \in 6..256 : target.ratio % s = 0 /\ target.ratio \div s <= STAGE2_MAX } }
          ELSE {})

EvenAdmissible == { pair \in Admissible : pair[2] % 2 = 0 }

Divided == entry = "output_divider" /\ pc = "done"

\* C23: output_divider returns a pair (stage1, stage2) of product ratio
\* exactly when one is admissible, (ratio, 1) for 2 <= ratio <= 256, or on
\* index 5 above 256 a pair with stage1 in 6..256 and stage2 within its
\* range, and None otherwise; on index 5 above 256, when a pair of even
\* stage2 is admissible the result has an even stage2 and the largest
\* stage1 of those pairs.
C23_OutputDivider ==
    Divided =>
        /\ result.plan = NoPair <=> Admissible = {}
        /\ result.plan # NoPair => result.plan \in Admissible /\ result.plan[1] * result.plan[2] = target.ratio
        /\ target.index = 5 /\ target.ratio > 256 /\ EvenAdmissible # {} =>
               result.plan \in EvenAdmissible /\ \A pair \in EvenAdmissible : pair[1] <= result.plan[1]

\* The same for the copy in plan_tools.py alone.
OutputDividerOfTools == target.variant = "pll2" => C23_OutputDivider

\* The same for ratios from 2 on, in both copies.
OutputDividerFromTwo == target.ratio >= 2 => C23_OutputDivider

OneReturned == Divided /\ target.variant = "lmk" /\ target.ratio = 1 /\ result.plan = << 1, 1 >>

\* ------------------------------------------------------------------------
\* Properties of factor_splitting()
\* ------------------------------------------------------------------------

\* The pairs (L, R) with L * R = number, L <= maxL and R <= maxR.
Splittings == { << left, target.number \div left >> : left \in { l \in 1..target.number : target.number % l = 0 /\ l <= target.maxL /\ target.number \div l <= target.maxR } }

\* Every pair of the range and nothing else.
AllSplittings ==
    /\ \A j \in 1..Len(yielded) : yielded[j] \in Splittings
    /\ pc = "done" => \A pair \in Splittings : \E j \in 1..Len(yielded) : yielded[j] = pair

\* C24: with every prime factor of n in primes, factor_splitting(n, primes,
\* maxL, maxR) terminates and yields every pair (L, R) of positive integers
\* with L * R = n, L <= maxL and R <= maxR exactly once and nothing else,
\* for maxL <= maxR as well as for maxL > maxR.
C24_EverySplittingOnce ==
    entry = "factor_splitting" =>
        /\ AllSplittings
        /\ \A j, k \in 1..Len(yielded) : j < k => yielded[j] # yielded[k]

\* What holds: every pair and nothing else, once for maxL > maxR and twice
\* for maxL <= maxR.
SplittingsOnceOrTwice ==
    entry = "factor_splitting" =>
        /\ AllSplittings
        /\ pc = "done" => \A pair \in Splittings : Cardinality({ j \in 1..Len(yielded) : yielded[j] = pair }) = IF target.maxL <= target.maxR THEN 2 ELSE 1

SplitTwice == entry = "factor_splitting" /\ pc = "done" /\ Len(yielded) = 2 * Cardinality(Splittings) /\ Len(yielded) > 4

\* ------------------------------------------------------------------------
\* C25: the source of each output in the registers of freq_make_data
\* ------------------------------------------------------------------------

\* freq_make_data has returned its registers in `masked`.
Made == entry = "freq_make_data" /\ pc \in {"made", "reported"}

\* A field of the registers made: whether it was written, and its value.
FieldWritten(name) == MaskedBytes_extract_mask(masked, REGISTERS[name]) # 0

FieldValue(name) == MaskedBytes_extract(masked, REGISTERS[name])

\* The two post-dividers the registers hold.
MadeP1 == FieldValue("PLL2_P1") + 1

MadeP2 == FieldValue("PLL2_P2") + 1

\* The mux of a pre-divider, the BAW being selected by the value baw.
SelectedMux(pre, baw) == IF pre = 0 THEN baw ELSE IF pre = MadeP1 THEN 2 ELSE 3

\* Output i (from 1) of the plan is off: CH_PD is 1 and neither the mux nor
\* a divider is written.
OutputOff(i) ==
    /\ FieldWritten("CH" \o chtag[i] \o "_PD")
    /\ FieldValue("CH" \o chtag[i] \o "_PD") = 1
    /\ ~FieldWritten("CH" \o chtag[i] \o "_MUX")
    /\ ~FieldWritten("OUT" \o chtag[i] \o "_DIV")
    /\ (i = 6 => ~FieldWritten("OUT7_STG2_DIV"))

\* Output i (from 1) of the plan is on, with its dividers and its mux.
OutputOn(i, baw) ==
    /\ FieldWritten("CH" \o chtag[i] \o "_PD")
    /\ FieldValue("CH" \o chtag[i] \o "_PD") = 0
    /\ FieldWritten("OUT" \o chtag[i] \o "_DIV")
    /\ FieldValue("OUT" \o chtag[i] \o "_DIV") = target.dividers[i][2] - 1
    /\ (i = 6 => /\ FieldWritten("OUT7_STG2_DIV")
                 /\ FieldValue("OUT7_STG2_DIV") = target.dividers[i][3] - 1)
    /\ target.dividers[i][1] \in {0, MadeP1, MadeP2}
    /\ FieldWritten("CH" \o chtag[i] \o "_MUX")
    /\ FieldValue("CH" \o chtag[i] \o "_MUX") = SelectedMux(target.dividers[i][1], baw)

\* The post-dividers are written, and are 2 when no output of the plan has
\* a pre-divider.
PostDividersMade ==
    /\ FieldWritten("PLL2_P1") /\ FieldWritten("PLL2_P2")
    /\ ((\A i \in 1..Len(target.dividers) : target.dividers[i][1] = 0)
          => MadeP1 = 2 /\ MadeP2 = 2)

OutputsSelected(baw) ==
    /\ PostDividersMade
    /\ \A i \in 1..Len(target.dividers) :
          IF target.dividers[i][2] = 0 THEN OutputOff(i) ELSE OutputOn(i, baw)

\* C25 as stated: in the registers of freq_make_data, an output with
\* stage1 = 0 has CH_PD = 1 and no mux or divider field; any other has
\* CH_PD = 0, OUT_DIV = stage1 - 1 (OUT7_STG2_DIV = stage2 - 1 on index 5)
\* and the mux 1 for the BAW (pre = 0), 2 for pre = p1 and 3 for pre = p2,
\* with PLL2_P1 = p1 - 1, PLL2_P2 = p2 - 1, both 2 when PLL2 is unused.
C25_OutputSourceSelection == Made => OutputsSelected(1)

\* C25 with the mux the source writes for the BAW: 0, not 1.
C25_OutputSourceSelectionZero == Made => OutputsSelected(0)

\* Registers made of a plan with an output that is off, one from the BAW,
\* one from each of two different post-dividers, and the last output on.
C25_EverySourceSelected ==
    /\ Made
    /\ MadeP1 # MadeP2
    /\ \E i \in 1..Len(target.dividers) : target.dividers[i][2] = 0
    /\ \E i \in 1..Len(target.dividers) :
          target.dividers[i][2] # 0 /\ target.dividers[i][1] = 0
    /\ \E i \in 1..Len(target.dividers) :
          target.dividers[i][2] # 0 /\ target.dividers[i][1] = MadeP1
    /\ \E i \in 1..Len(target.dividers) :
          target.dividers[i][2] # 0 /\ target.dividers[i][1] = MadeP2
    /\ target.dividers[6][3] > 1

\* ------------------------------------------------------------------------
\* C26: the search of pll2_plan is bounded
\* ------------------------------------------------------------------------

\* pll2_plan is in its loop, called from plan() or from pll2_plan_low.
Searching == entry \in {"plan", "pll2_plan_low"} /\ pc = "loop"

\* The passes of the loop made so far, and all it makes.
Evaluated == mult - pll2_start(pll2_lcm)

Multiples == pll2_end(pll2_lcm) - pll2_start(pll2_lcm) + 1

\* The multiplier of the middle of the range of the VCO.
MidMultiplier == FDiv(FInt(PLL2_MID), pll2_lcm)

FallbackSearched(v) ==
    /\ Searching /\ variant = v /\ Evaluated > 0
    /\ FLt(target.freqs[BIG_DIVIDE + 1], LOW_LIMIT)

FallbackSearchedLmk == FallbackSearched("lmk")

FallbackSearchedTools == FallbackSearched("pll2")

\* ------------------------------------------------------------------------
\* C27: RESET_SW in the writes add_live_lmk05318b records
\* ------------------------------------------------------------------------

\* add_live_lmk05318b has recorded its writes.
Recorded == entry = "add_live_lmk05318b" /\ pc = "recorded"

\* RESET_SW of the live chip.
OriginalResetSw == Register_extract(RESET_SW, device)

\* The k-th write covers address 12, and the RESET_SW it carries.
Covers12(k) == writes[k][1] <= 12 /\ 12 < writes[k][1] + Len(writes[k][2])

CarriedResetSw(k) == writes[k][2][12 - writes[k][1] + 1] \div 128

\* The k-th write is one byte to address 12.
OneByteTo12(k) == writes[k][1] = 12 /\ Len(writes[k][2]) = 1

\* The writes before the one that restores RESET_SW.
Bracketed == 1..(IF OriginalResetSw # 1 THEN Len(writes) - 1 ELSE Len(writes))

\* A chip that differs from the live one in every bit, and its registers
\* after the recorded writes are sent to it.
OtherChip == [ j \in 1..DATA_SIZE |-> FULL_MASK - device[j] ]

Replayed == written_device(OtherChip, writes, 1)

\* C27: the first write recorded is one byte to address 12 with RESET_SW = 1;
\* every later burst that covers address 12 has RESET_SW = 1; a last write
\* of one byte to address 12 with the RESET_SW of the chip is recorded if
\* and only if that was not 1, so that address 12 is written three times or
\* twice; and a replay leaves address 12 as it was read from the chip.
C27_ResetBracketing ==
    Recorded =>
        /\ Len(writes) >= 2
        /\ OneByteTo12(1) /\ CarriedResetSw(1) = 1
        /\ \A k \in Bracketed : Covers12(k) => CarriedResetSw(k) = 1
        /\ (OriginalResetSw # 1 =>
               /\ OneByteTo12(Len(writes))
               /\ CarriedResetSw(Len(writes)) = OriginalResetSw)
        /\ Cardinality({ k \in 1..Len(writes) : Covers12(k) })
             = (IF OriginalResetSw # 1 THEN 3 ELSE 2)
        /\ Replayed[13] = device[13]

\* Writes recorded from a chip out of reset: the last restores RESET_SW = 0
\* after bursts either side of address 12.
C27_ResetRestored ==
    /\ Recorded /\ OriginalResetSw = 0
    /\ OneByteTo12(Len(writes)) /\ CarriedResetSw(Len(writes)) = 0
    /\ \E k \in 2..(Len(writes) - 1) : writes[k][1] > 12

\* Writes recorded from a chip in reset: nothing follows the bursts.
ResetKept ==
    /\ Recorded /\ OriginalResetSw = 1
    /\ writes[Len(writes)][1] > 12

\* ------------------------------------------------------------------------
\* C28: the sector next_header erases does not hold the active config
\* ------------------------------------------------------------------------

\* The call that follows erases a sector.
ErasesSector == Writes /\ Erases # << >>

\* An address lies in the sector of four slots that begins at base.
InSector(address, base) == address >= base /\ address < base + SECTOR_SLOTS * SLOT_SIZE

\* The active config is whole and its CRC holds in the flash mem.
ActiveIntact(mem, active) ==
    /\ peek(mem, active.address, word_int(active.length)) = active.content
    /\ verifies(mem, active)

\* C28: whenever a save or a clear erases a sector, the sector is one of
\* the two of the second bank and the config that was active before the
\* call lies outside it, in whichever bank or sector that config is; the
\* active blob is whole and CRC-valid after the erase and after the write
\* of the new blob.
C28_ActiveSurvivesErase ==
    [][ErasesSector =>
         /\ Erases[1].address \in {SECOND_BANK, SECOND_SECTOR}
         /\ (outcome'.active # NoConfig =>
               /\ ~InSector(outcome'.active.address, Erases[1].address)
               /\ ActiveIntact(flash_erase(flash, Erases[1].address), outcome'.active)
               /\ ActiveIntact(flash', outcome'.active))]_vars

\* A sector was erased while the active config was in the first sector of
\* the second bank, the sector the scan begins with.
C28_ErasedBesideActive ==
    /\ outcome.issued # << >> /\ outcome.issued[1].op = "flash_erase"
    /\ outcome.issued[1].address = SECOND_SECTOR
    /\ outcome.active # NoConfig /\ InSector(outcome.active.address, SECOND_BANK)

\* A sector was erased while the active config was in the second sector
\* of the second bank, and while it was in the first bank.
ErasedBeforeActive ==
    /\ outcome.issued # << >> /\ outcome.issued[1].op = "flash_erase"
    /\ outcome.issued[1].address = SECOND_BANK
    /\ outcome.active # NoConfig /\ InSector(outcome.active.address, SECOND_SECTOR)

ErasedUnderFirstBank ==
    /\ outcome.issued # << >> /\ outcome.issued[1].op = "flash_erase"
    /\ outcome.active # NoConfig /\ outcome.active.address < SECOND_BANK

\* ------------------------------------------------------------------------
\* C29: the blob a save or a clear writes is the active one afterwards
\* ------------------------------------------------------------------------

\* headers = get_headers(dev); active_header(dev, headers) on the flash the
\* call leaves.
ActiveAfter == active_header(flash', get_headers(flash'))

\* The slot just written is the active one, one generation after the
\* config that was active before the call.
BecomesActive ==
    /\ ActiveAfter # NoConfig
    /\ ActiveAfter.address = Pokes[1].address
    /\ word_int(ActiveAfter.generation) = GenerationAfter(outcome'.active)
    /\ (outcome'.active # NoConfig => word_less(outcome'.active.generation, ActiveAfter.generation))

\* C29: after every save_config and do_clear that writes, active_header on
\* the headers read again returns the slot just written, and its
\* generation is one more than that of the config active before (1 when
\* there was none), so the active generation grows with every write.
C29_NewBlobActive == [][Writes => BecomesActive]_vars

\* The same of the writes whose blob fits a slot.
NewBlobActiveWithinSlot == [][(Writes /\ Len(outcome'.config) <= SLOT_SIZE) => BecomesActive]_vars

\* A blob longer than a slot was written and the config active before the
\* call is active still.
WrittenNotActive ==
    /\ entry = "save_config" /\ outcome.issued # << >>
    /\ Len(outcome.config) > SLOT_SIZE
    /\ active_header(flash, get_headers(flash)).address = outcome.active.address

\* A second write in a row made the blob of the first the previous one.
WrittenTwice ==
    /\ pc = "called again" /\ entry \in {"save_config", "do_clear"} /\ outcome.issued # << >>
    /\ previous.entry \in {"save_config", "do_clear"} /\ previous.out \in {"True", "None"}
    /\ outcome.active # NoConfig
    /\ active_header(flash, get_headers(flash)).generation = word_inc(outcome.active.generation)

\* ------------------------------------------------------------------------
\* C30: do_freq writes the registers with the chip held in software reset
\* ------------------------------------------------------------------------

\* masked_write has returned.
FreqWritten == entry = "do_freq" /\ pc \in {"release", "status", "done"}

\* The reset has been released.
FreqReleased == entry = "do_freq" /\ pc \in {"status", "done"}

\* The bursts of masked_write among the writes.
Bursts == IF FreqReleased THEN Len(writes) - 1 ELSE Len(writes)

\* The first burst starts at address 12 with RESET_SW = 1, and the bursts
\* after it go up in their addresses.
HeldThenAscending ==
    /\ Bursts >= 1
    /\ writes[1][1] = 12 /\ CarriedResetSw(1) = 1
    /\ \A k \in 1..(Bursts - 1) : writes[k][1] + Len(writes[k][2]) <= writes[k + 1][1]
    /\ Register_extract(RESET_SW, device) = (IF FreqReleased THEN 0 ELSE 1)

\* The last write is one byte to address 12 with RESET_SW = 0 and the other
\* bits of the first burst, and no other write has RESET_SW = 0.
ReleasedOnce ==
    /\ OneByteTo12(Len(writes))
    /\ CarriedResetSw(Len(writes)) = 0
    /\ writes[Len(writes)][2][1] % 128 = writes[1][2][1] % 128
    /\ \A k \in 1..Bursts : ~ (Covers12(k) /\ CarriedResetSw(k) = 0)

\* The status request is sent after the release, and nothing is written
\* from the release on.
StatusLast ==
    /\ (wire' # wire => pc = "status" /\ wire' = lmk05318b_status)
    /\ (FreqReleased => writes' = writes /\ device' = device)
    /\ (pc' = "done" <=> wire' = lmk05318b_status)

\* C30: in do_freq the first register write is the burst that starts at
\* address 12 and carries RESET_SW = 1; the other bursts follow in ascending
\* addresses; then comes one write of one byte to address 12 with
\* RESET_SW = 0 and the other bits as in the first burst; then the status
\* request; nothing is written after the release.
C30_ResetHeld ==
    /\ [](FreqWritten => HeldThenAscending)
    /\ [](FreqReleased => ReleasedOnce)
    /\ [][entry = "do_freq" => StatusLast]_vars

\* A frequency update has ended after bursts beyond the first, the first
\* burst with bits of the plan and of the chip beside RESET_SW.
C30_Updated ==
    /\ entry = "do_freq" /\ pc = "done"
    /\ Len(writes) >= 4
    /\ wire = lmk05318b_status
    /\ writes[1][2][1] % 128 # 0

=============================================================================
